---- MODULE Spec2Model ----
(***************************************************************************)
(* Verification model of the query-orchestration core of Xpider_Huelva.     *)
(*                                                                         *)
(*   SpecCypher : services/cypher.py, one call of cypher_qa after another  *)
(*                (plan generation, safety gate, binding check, row cap,   *)
(*                execution, one repair).                                  *)
(*   SpecTrim   : chat_utils/text_utils.py and services/context_builder.py *)
(*                as rag_node uses them: the context is rendered, capped   *)
(*                and the history trimmed to the token budget.  A text is  *)
(*                its number of characters, which is all estimate_tokens,  *)
(*                enforce_budget and trim_history_to_fit look at.          *)
(*   Spec       : services/orchestrator.py, services/graph.py and          *)
(*                services/graph_nodes.py: a session in which one turn     *)
(*                follows another; each turn is orchestrate_message and    *)
(*                the graph run it starts, cut at the external calls       *)
(*                (classifier, embedding, searches, completion, stream),   *)
(*                each of which may return or raise.                       *)
(*   SpecDraft  : the same turns, restricted to a draft dialogue (draft    *)
(*                requests, technical answers, topic switches) over more   *)
(*                turns.                                                   *)
(*                                                                         *)
(* A query text is a sequence of word tokens (the regular expressions of   *)
(* cypher.py only look at words and at the whitespace between them; they   *)
(* ignore case, so keyword tokens are written in upper case).              *)
(***************************************************************************)
EXTENDS Integers, Sequences, FiniteSets, TLC

VARIABLES
    cq_pc,        \* position inside cypher_qa
    cypher,       \* local `cypher` of cypher_qa
    cypher2,      \* local `cypher2` of cypher_qa (the execution-error repair)
    executed,     \* texts passed to neo4j_query, in order
    hints,        \* error_hint kind of each generate_cypher_plan call, in order
    rows,         \* number of rows neo4j_query returned to cypher_qa
    cq_out        \* what cypher_qa returned: [kind, cypher, answer, rows_json]

cqvars == <<cq_pc, cypher, cypher2, executed, hints, rows, cq_out>>

VARIABLES
    tr_pc,        \* "input", "built" (context rendered), "done" (history trimmed)
    tr_question,  \* len(question.strip())
    tr_evidence,  \* characters build_context renders for contratos/capitulos/extractos
    tr_lookup,    \* len(empresa_lookup), 0 when there is none
    tr_nif,       \* characters of the second argument of _empresa_context_header
    tr_history,   \* state["history"]: messages [id, len]
    tr_context,   \* len(context), the user message sent to the model
    tr_kept,      \* history_trimmed
    tr_first      \* <<context, history_trimmed>> of an earlier run on these inputs

trvars == <<tr_pc, tr_question, tr_evidence, tr_lookup, tr_nif, tr_history,
            tr_context, tr_kept, tr_first>>

VARIABLES
    sess,         \* cl.user_session: [history, router_state, ppt_pending, ppt_request_base]
    st,           \* the AgentState of the running turn: [question, history, router_state, intent, result]
    rs_shared,    \* st.router_state is the very dict object held by the session
    pc,           \* next step of orchestrate_message / next node of the graph
    turn,         \* number of calls of orchestrate_message so far
    nodes_run,    \* nodes the graph run of this turn has entered, in order
    graph_run,    \* "none", "running", "returned" (ainvoke returned), "raised"
    pre,          \* value of sess when the running turn began (sess itself between turns)
    orch_answer,  \* local `answer` of orchestrate_message: "" or "text"
    plan_calls    \* returns of ppt_plan_node since a draft was last started afresh
                  \* with no round counted, 0 once it returned READY

orvars == <<sess, st, rs_shared, pc, turn, nodes_run, graph_run, pre, orch_answer,
            plan_calls>>

VARIABLES
    di_pc,        \* "ask" (a turn may start), "told" (detect_intent has returned)
    di_q,         \* the utterance of the turn
    di_resp,      \* what the completion provider answered, if it was asked
    di_out,       \* what detect_intent returned or that it raised
    di_history,   \* the session's history
    di_last,      \* the session's router memory
    di_turn       \* number of turns so far

divars == <<di_pc, di_q, di_resp, di_out, di_history, di_last, di_turn>>

VARIABLES
    cc_sess,      \* cl.user_session of one conversation: [history, router_state]
    cc_pc,        \* per handler: "idle", "running" (state read), "answered" (history set)
    cc_local,     \* per handler: the locals of its orchestrate_message call
    cc_turn       \* number of calls of orchestrate_message so far

ccvars == <<cc_sess, cc_pc, cc_local, cc_turn>>

vars == <<cqvars, trvars, orvars, divars, ccvars>>

\* what cypher_qa, the context assembly and the turn orchestration leave alone
noncq == <<trvars, orvars, divars, ccvars>>
nontr == <<cqvars, orvars, divars, ccvars>>
nonor == <<cqvars, trvars, divars, ccvars>>
nondi == <<cqvars, trvars, orvars, ccvars>>
noncc == <<cqvars, trvars, orvars, divars>>

(***************************************************************************)
(* Bounds                                                                  *)
(***************************************************************************)
MaxPlanLen == 2

\* Representative words a generated plan is made of.  "LIMIT" is the keyword
\* of a LIMIT clause, "'limit'" a string literal that holds the word.
PlanTokens ==
    {"MATCH", "CALL", "CREATE", "REMOVE", "apoc.x", "r.prop", "[r:REL]", "LIMIT",
     "'limit'"}

RECURSIVE SeqsUpTo(_, _)
SeqsUpTo(S, n) ==
    IF n = 0 THEN {<<>>}
    ELSE LET shorter == SeqsUpTo(S, n - 1)
         IN  shorter \cup {Append(s, x) : s \in {t \in shorter : Len(t) = n - 1}, x \in S}

\* plan["cypher"] as generate_cypher_plan returns it: any text, "" included.
PlanTexts == SeqsUpTo(PlanTokens, MaxPlanLen)

(***************************************************************************)
(* services/cypher.py: the pure helpers                                    *)
(***************************************************************************)
DefaultLimit == 50

HasToken(c, S) == \E i \in 1..Len(c) : c[i] \in S

HasPair(c, a, B) == \E i \in 1..(Len(c) - 1) : c[i] = a /\ c[i + 1] \in B

\* WRITE_KEYWORDS.search(cypher):
\*   \b(CREATE|MERGE|SET|DELETE|DETACH|DROP|LOAD\s+CSV|CALL\s+apoc\.|CALL\s+dbms)\b
WRITE_KEYWORDS(c) ==
    \/ HasToken(c, {"CREATE", "MERGE", "SET", "DELETE", "DETACH", "DROP"})
    \/ HasPair(c, "LOAD", {"CSV"})
    \/ HasPair(c, "CALL", {"apoc.x", "dbms", "dbms.x"})

cypher_is_safe_readonly(c) ==
    /\ c # <<>>
    /\ ~WRITE_KEYWORDS(c)
    /\ HasToken(c, {"MATCH", "CALL", "WITH", "RETURN"})

\* re.search(r"\bLIMIT\b", cypher, re.IGNORECASE): the word, wherever it stands
LimitWord == {"LIMIT", "'limit'"}

cypher_ensure_limit(c) ==
    IF HasToken(c, LimitWord) THEN c ELSE c \o <<"LIMIT", ToString(DefaultLimit)>>

cypher_needs_r_binding_Inverted(c) ==
    IF HasToken(c, {"r.prop"}) THEN HasToken(c, {"[r:REL]"}) ELSE FALSE

cypher_needs_r_binding(c) ==
    IF HasToken(c, {"r.prop"}) THEN ~HasToken(c, {"[r:REL]"}) ELSE FALSE

(***************************************************************************)
(* services/cypher.py: cypher_qa, cut at its external calls                *)
(***************************************************************************)
\* a result of cypher_qa without an answer; rows_json is the number of rows
\* written into the narration prompt, -1 when no narration was asked for
Out(kind, c) == [kind |-> kind, cypher |-> c, answer |-> "none", rows_json |-> -1]

NoOut == Out("none", <<>>)

\* line 314: the rows of the Markdown table; line 319: the most rows narrated
PreviewRows == 10
NarrateMaxRows == 15

\* len(rows): the sizes on the two sides of the narration threshold
RowCounts == {NarrateMaxRows, NarrateMaxRows + 1}

\* lines 309-319: how the rows are answered; json is _wants_raw_json(question)
Respond(n, json) ==
    IF json THEN "raw" ELSE IF n > NarrateMaxRows THEN "preview" ELSE "narrate"

\* neo4j_query returned n rows
Executed(n, json) ==
    /\ rows' = n
    /\ cq_pc' = Respond(n, json)

InitCq ==
    /\ cq_pc = "start"
    /\ cypher = <<>>
    /\ cypher2 = <<>>
    /\ executed = <<>>
    /\ hints = <<>>
    /\ rows = 0
    /\ cq_out = NoOut

\* A completion call that fails raises out of cypher_qa: nothing catches it.
CqRaise ==
    /\ cq_pc \in {"start", "regen", "repair", "narrate"}
    /\ cq_pc' = "done"
    /\ cq_out' = Out("raised", <<>>)
    /\ UNCHANGED <<cypher, cypher2, executed, hints, rows>>
    /\ UNCHANGED noncq

\* lines 258-271 up to the second generate_cypher_plan call
CqGenerate ==
    /\ cq_pc = "start"
    /\ \E text \in PlanTexts :
        /\ cypher' = text
        /\ hints' = Append(hints, "")
        /\ IF ~cypher_is_safe_readonly(text)
           THEN /\ cq_pc' = "done"
                /\ cq_out' = Out("error_unsafe", text)
           ELSE /\ cq_out' = cq_out
                /\ cq_pc' = IF cypher_needs_r_binding(text) THEN "regen" ELSE "exec1"
    /\ UNCHANGED <<cypher2, executed, rows>>
    /\ UNCHANGED noncq

\* lines 269-271: the plan regenerated after the binding-consistency check
CqRegenerate ==
    /\ cq_pc = "regen"
    /\ \E text \in PlanTexts :
        /\ cypher' = text
        /\ hints' = Append(hints, "binding")
    /\ cq_pc' = "exec1"
    /\ UNCHANGED <<cypher2, executed, rows, cq_out>>
    /\ UNCHANGED noncq

\* lines 273-283: row cap, then neo4j_query(cypher, params)
CqExecute1 ==
    /\ cq_pc = "exec1"
    /\ cypher' = cypher_ensure_limit(cypher)
    /\ executed' = Append(executed, cypher')
    /\ \/ \E n \in RowCounts, json \in BOOLEAN : Executed(n, json)
       \/ cq_pc' = "repair" /\ rows' = rows
    /\ UNCHANGED <<cypher2, hints, cq_out>>
    /\ UNCHANGED noncq

\* lines 285-292: the plan regenerated after an execution error
CqRepairGenerate ==
    /\ cq_pc = "repair"
    /\ \E text \in PlanTexts :
        /\ hints' = Append(hints, "exec_error")
        /\ IF ~cypher_is_safe_readonly(text)
           THEN /\ cq_pc' = "done"
                /\ cypher2' = text
                /\ cq_out' = Out("error_repair_unsafe", cypher)
           ELSE /\ cypher2' = cypher_ensure_limit(text)
                /\ cq_out' = cq_out
                /\ cq_pc' = "exec2"
    /\ UNCHANGED <<cypher, executed, rows>>
    /\ UNCHANGED noncq

CqExecute2_RetriesAgain ==
    /\ cq_pc = "exec2"
    /\ Len(executed) < 4
    /\ executed' = Append(executed, cypher2)
    /\ \E ok \in BOOLEAN :
        IF ok
        THEN /\ cypher' = cypher2
             /\ cq_pc' = "narrate"
        ELSE /\ cypher' = cypher
             /\ cq_pc' = "repair"
    /\ UNCHANGED <<cypher2, hints, rows, cq_out>>
    /\ UNCHANGED noncq

\* lines 293-301: neo4j_query(cypher2, params2)
CqExecute2 ==
    /\ cq_pc = "exec2"
    /\ executed' = Append(executed, cypher2)
    /\ \/ /\ cypher' = cypher2
          /\ \E n \in RowCounts, json \in BOOLEAN : Executed(n, json)
          /\ cq_out' = cq_out
       \/ /\ cypher' = cypher
          /\ cq_pc' = "done"
          /\ rows' = rows
          /\ cq_out' = Out("error_retry", cypher2)
    /\ UNCHANGED <<cypher2, hints>>
    /\ UNCHANGED noncq

\* lines 308-325: the rows as JSON text, or the first rows as a table with
\* the notice that only these are in context; no completion call
CqAnswerDirect ==
    /\ cq_pc \in {"raw", "preview"}
    /\ cq_pc' = "done"
    /\ cq_out' = [kind |-> "answer", cypher |-> cypher,
                  answer |-> IF cq_pc = "raw" THEN "raw_json" ELSE "preview",
                  rows_json |-> -1]
    /\ UNCHANGED <<cypher, cypher2, executed, hints, rows>>
    /\ UNCHANGED noncq

\* lines 326-359: the completion provider narrates json.dumps(rows); an
\* empty narration, or one that is JSON, is replaced by the table
CqAnswer ==
    /\ cq_pc = "narrate"
    /\ cq_pc' = "done"
    /\ \E a \in {"narration", "table"} :
          cq_out' = [kind |-> "answer", cypher |-> cypher, answer |-> a,
                    rows_json |-> rows]
    /\ UNCHANGED <<cypher, cypher2, executed, hints, rows>>
    /\ UNCHANGED noncq

\* the next call of cypher_qa: all its locals are fresh
CqCall ==
    /\ cq_pc = "done"
    /\ cq_pc' = "start"
    /\ cypher' = <<>>
    /\ cypher2' = <<>>
    /\ executed' = <<>>
    /\ hints' = <<>>
    /\ rows' = 0
    /\ cq_out' = NoOut
    /\ UNCHANGED noncq

(***************************************************************************)
(* config.py                                                               *)
(***************************************************************************)
MAX_HISTORY_TURNS == 12
MODEL_MAX_CONTEXT_TOKENS == 30000
RESERVE_FOR_ANSWER_TOKENS == 6000
RAG_CONTEXT_MAX_TOKENS == 12000
RAG_CONTEXT_MAX_CHARS == RAG_CONTEXT_MAX_TOKENS * 4

(***************************************************************************)
(* chat_utils/text_utils.py on character counts                            *)
(***************************************************************************)
\* len(" [...]"), the marker clip and enforce_budget append
TruncationMarkerLen == 4

enforce_budget_NoMarkerRoom(n, max_chars) ==
    IF n <= max_chars THEN n ELSE max_chars

enforce_budget(n, max_chars) ==
    IF n <= max_chars THEN n ELSE max_chars + TruncationMarkerLen

estimate_tokens(n) ==
    IF n = 0 THEN 0 ELSE IF n \div 4 >= 1 THEN n \div 4 ELSE 1

RECURSIVE SumTokens(_)
SumTokens(h) ==
    IF h = <<>> THEN 0 ELSE estimate_tokens(h[1].len) + SumTokens(Tail(h))

\* the loop of trim_history_to_fit, from message i down to the oldest
RECURSIVE TrimWalk(_, _, _, _)
TrimWalk(h, i, used, budget) ==
    IF i = 0 THEN <<>>
    ELSE LET mt == estimate_tokens(h[i].len)
         IN  IF used + mt > budget THEN <<>>
             ELSE Append(TrimWalk(h, i - 1, used + mt, budget), h[i])

RECURSIVE TrimWalk_Skipping(_, _, _, _)
TrimWalk_Skipping(h, i, used, budget) ==
    IF i = 0 THEN <<>>
    ELSE LET mt == estimate_tokens(h[i].len)
         IN  IF used + mt > budget THEN TrimWalk_Skipping(h, i - 1, used, budget)
             ELSE Append(TrimWalk_Skipping(h, i - 1, used + mt, budget), h[i])

trim_history_to_fit_SkipsOverflowing(h, system_len, user_len, max_context_tokens, reserve) ==
    LET budget == max_context_tokens - reserve
        used   == estimate_tokens(system_len) + estimate_tokens(user_len)
    IN  TrimWalk_Skipping(h, Len(h), used, budget)

trim_history_to_fit_KeepsOverflowing(h, system_len, user_len, max_context_tokens, reserve) ==
    LET budget == max_context_tokens - reserve
        used   == estimate_tokens(system_len) + estimate_tokens(user_len)
    IN  IF h = <<>> THEN <<>>
        ELSE Append(TrimWalk(h, Len(h) - 1, used + estimate_tokens(h[Len(h)].len), budget),
                    h[Len(h)])

trim_history_to_fit(h, system_len, user_len, max_context_tokens, reserve) ==
    LET budget == max_context_tokens - reserve
        used   == estimate_tokens(system_len) + estimate_tokens(user_len)
    IN  TrimWalk(h, Len(h), used, budget)

LastN_KeepsOldest(h, n) == IF Len(h) <= n THEN h ELSE SubSeq(h, 1, n)

\* history[-n:]
LastN(h, n) == IF Len(h) <= n THEN h ELSE SubSeq(h, Len(h) - n + 1, Len(h))

(***************************************************************************)
(* services/context_builder.py and the prompt assembly of rag_node         *)
(***************************************************************************)
\* len(system_msg) of rag_node
SystemMsgLen == 117

\* characters build_context emits around the question and the evidence: the
\* question heading, the instructions block and the joining newlines
ContextFixedLen == 406

build_context(question_len, evidence_len) ==
    enforce_budget(ContextFixedLen + question_len + evidence_len, RAG_CONTEXT_MAX_CHARS)

\* len("Focus: EMPRESA (Query: '')") and len("Focus: EMPRESA (Query: '', NIF: )")
HeaderLenNoNif == 26
HeaderLenNif == 33

_empresa_context_header(lookup_len, nif_len) ==
    IF nif_len > 0 THEN HeaderLenNif + lookup_len + nif_len
    ELSE HeaderLenNoNif + lookup_len

\* len("\n\n") between the header and the context
HeaderSeparatorLen == 2

(***************************************************************************)
(* Inputs of the context assembly                                          *)
(***************************************************************************)
MaxTrimHist == 3

\* message lengths: empty, under 4 characters, short, and a long answer
HistoryLens == {0, 3, 8, 44000}
QuestionLens == {20, 50000}
EvidenceLens == {0, 5000, 60000}
LookupLens == {0, 12, 49000}
NifLens == {0, 150}

Histories ==
    UNION {[1..n -> HistoryLens] : n \in 0..MaxTrimHist}

MkHistory(lens) == [i \in 1..Len(lens) |-> [id |-> i, len |-> lens[i]]]

TrIdle ==
    /\ tr_pc = "off"
    /\ tr_question = 0
    /\ tr_evidence = 0
    /\ tr_lookup = 0
    /\ tr_nif = 0
    /\ tr_history = <<>>
    /\ tr_context = 0
    /\ tr_kept = <<>>
    /\ tr_first = <<>>

InitTr ==
    /\ tr_pc = "input"
    /\ tr_question \in QuestionLens
    /\ tr_evidence \in EvidenceLens
    /\ tr_lookup \in {l \in LookupLens : l <= tr_question}
    /\ tr_nif \in NifLens
    /\ tr_history \in {MkHistory(lens) : lens \in Histories}
    /\ tr_context = 0
    /\ tr_kept = <<>>
    /\ tr_first = <<>>

\* rag_node lines 246-249 (company focus) and 316, 365 (no header)
TrBuildContext ==
    /\ tr_pc = "input"
    /\ tr_context' =
          IF tr_lookup > 0
          THEN _empresa_context_header(tr_lookup, tr_nif) + HeaderSeparatorLen
                   + build_context(tr_question, tr_evidence)
          ELSE build_context(tr_question, tr_evidence)
    /\ tr_pc' = "built"
    /\ UNCHANGED <<tr_question, tr_evidence, tr_lookup, tr_nif, tr_history, tr_kept,
                   tr_first>>
    /\ UNCHANGED nontr

TrTrim_TrimsInPlace ==
    /\ tr_pc = "built"
    /\ tr_kept' = trim_history_to_fit(LastN(tr_history, MAX_HISTORY_TURNS), SystemMsgLen,
                                       tr_context, MODEL_MAX_CONTEXT_TOKENS,
                                       RESERVE_FOR_ANSWER_TOKENS)
    /\ tr_history' = tr_kept'
    /\ tr_pc' = "done"
    /\ UNCHANGED <<tr_question, tr_evidence, tr_lookup, tr_nif, tr_context, tr_first>>
    /\ UNCHANGED nontr

\* rag_node lines 253-255, 319, 368
TrTrim ==
    /\ tr_pc = "built"
    /\ tr_kept' = trim_history_to_fit(LastN(tr_history, MAX_HISTORY_TURNS), SystemMsgLen,
                                       tr_context, MODEL_MAX_CONTEXT_TOKENS,
                                       RESERVE_FOR_ANSWER_TOKENS)
    /\ tr_pc' = "done"
    /\ UNCHANGED <<tr_question, tr_evidence, tr_lookup, tr_nif, tr_history, tr_context,
                   tr_first>>
    /\ UNCHANGED nontr

\* the context assembly is run once more on the question, evidence and
\* history the first run was given
TrAgain ==
    /\ tr_pc = "done"
    /\ tr_first = <<>>
    /\ tr_first' = <<tr_context, tr_kept>>
    /\ tr_context' = 0
    /\ tr_kept' = <<>>
    /\ tr_pc' = "input"
    /\ UNCHANGED <<tr_question, tr_evidence, tr_lookup, tr_nif, tr_history>>
    /\ UNCHANGED nontr

(***************************************************************************)
(* The conversation: utterances, Intent Results, router memory             *)
(*                                                                         *)
(* An utterance is a sequence of non-empty lines, a line a sequence of     *)
(* words.  A company is named by its name ("A", "B") or by its tax id       *)
(* ("NA", "NB").  A set of contracts, chapters or extracts is the company  *)
(* whose contracts it holds ("A", "B"), "*" for the result of an           *)
(* unfiltered search, "" when empty.  A draft request text is the set of   *)
(* turns whose utterances it was built from.                               *)
(***************************************************************************)
MaxTurns == 3
MaxDraftTurns == 5

Words(n) == [i \in 1..n |-> "w"]

RECURSIVE Flatten(_)
Flatten(q) == IF q = <<>> THEN <<>> ELSE Head(q) \o Flatten(Tail(q))

Utterances ==
    { << <<"pliego", "de", "limpieza">> >>,
      << <<"ranking", "de", "adjudicatarias">> >>,
      << <<"hola">> >>,
      << <<"buenas">>, <<"tardes">>, <<"...">> >>,
      << <<"y", "B", "?">> >>,
      << <<"1.", "diesel">>, <<"2.", "50000">> >>,
      << <<"uso", "forestal">>, <<"motor", "diesel">>, <<"50000", "euros">> >>,
      << Words(31) >> }

\* _GREET_RE.match(q): one greeting, optional punctuation, whitespace (line
\* breaks included) anywhere between the words
GreetPhrases == {<<"hola">>, <<"gracias">>, <<"buenas">>, <<"buenas", "tardes">>,
                 <<"buenos", "dias">>}
GreetPunctuation == {<<>>, <<"...">>, <<"!">>}

_GREET_RE(q) ==
    \E g \in GreetPhrases, p \in GreetPunctuation : Flatten(q) = g \o p

BulletTokens == {"1.", "2.", "-", "*"}

\* router_node lines 69-74
is_technical_answer(q) ==
    \/ \E i \in 1..Len(q) : Len(q[i]) >= 2 /\ q[i][1] \in BulletTokens
    \/ Len(Flatten(q)) > 30
    \/ Len(q) >= 3

\* rag_node line 293
is_aggregation(q) == \E i \in 1..Len(Flatten(q)) : Flatten(q)[i] = "ranking"

Empresas == {"A", "B"}

NifOf(name) == IF name = "A" THEN "NA" ELSE IF name = "B" THEN "NB" ELSE ""

CompanyOf(s) ==
    IF s \in {"A", "NA"} THEN "A" ELSE IF s \in {"B", "NB"} THEN "B" ELSE ""

\* on_chat_start: the router memory of a new session (keys not yet in the dict
\* read as the defaults of the .get calls)
InitRouterState ==
    [last_intent |-> "", last_focus |-> "", last_empresa_query |-> "",
     last_empresa_nif |-> "", last_contratos |-> "", last_capitulos |-> "",
     ppt_pending |-> FALSE, ppt_request_base |-> {}, ppt_rounds |-> 0]

on_chat_start ==
    [history |-> <<>>, router_state |-> InitRouterState,
     ppt_pending |-> FALSE, ppt_request_base |-> {}]

IntentResult(i, fu, fo, eq, en) ==
    [intent |-> i, is_greeting |-> FALSE, is_followup |-> fu, focus |-> fo,
     empresa_query |-> eq, empresa_nif |-> en,
     needs_cypher_fallback |-> FALSE, ppt_clarifications_needed |-> FALSE,
     ppt_plan |-> FALSE]

NoIntent == IntentResult("", FALSE, "", "", "")

\* detect_intent lines 123-134
GreetingResult == [IntentResult("RAG_QA", FALSE, "CONTRATO", "", "") EXCEPT !.is_greeting = TRUE]

(***************************************************************************)
(* services/intent_router.py.  The words of an utterance are separated by  *)
(* white space and a punctuation mark stands as a word of its own, so      *)
(* q.split() is Flatten(q).  A tax id is one of the words "NA", "NB".      *)
(* None and the empty string are both written "".                          *)
(***************************************************************************)
RECURSIVE Join(_)
Join(ws) ==
    IF ws = <<>> THEN ""
    ELSE IF Len(ws) = 1 THEN ws[1]
    ELSE ws[1] \o " " \o Join(Tail(ws))

\* len(q) of the stripped utterance
CharLen(q) == Len(Join(Flatten(q)))

\* number of words in front of the last line
BeforeLastLine(q) == Len(Flatten(q)) - Len(q[Len(q)])

\* the characters t.strip(" ?¿!.,;:") removes, as words
StripChars == {"?", "!", ".", "...", ",", ";", ":"}

RECURSIVE StripLeft(_)
StripLeft(ws) ==
    IF ws # <<>> /\ Head(ws) \in StripChars THEN StripLeft(Tail(ws)) ELSE ws

RECURSIVE StripRight(_)
StripRight(ws) ==
    IF ws # <<>> /\ ws[Len(ws)] \in StripChars
    THEN StripRight(SubSeq(ws, 1, Len(ws) - 1)) ELSE ws

NotEmpresa == {"eso", "esa", "ese", "ella", "ello", "esto", "esta", "este",
               "aqui", "ahi"}

\* re.fullmatch(r"\d{4}", t)
YearWords == {"2023", "2024"}

\* _clean_empresa on a text given by its words; "" is None
_clean_empresa(ws) ==
    LET t == StripRight(StripLeft(ws))
    IN  IF t = <<>> THEN ""
        ELSE IF Len(t) = 1 /\ t[1] \in NotEmpresa THEN ""
        ELSE IF Len(t) = 1 /\ t[1] \in YearWords THEN ""
        ELSE IF Len(t) >= 2 /\ t[1] = "en" THEN ""
        ELSE Join(t)

\* _CIF_RE: a letter and eight digits
CifWords == {"NA", "NB"}

\* _extract_cif: the first tax id in the text, "" is None
_extract_cif(ws) ==
    LET hits == {k \in 1..Len(ws) : ws[k] \in CifWords}
    IN  IF hits = {} THEN ""
        ELSE ws[CHOOSE k \in hits : \A j \in hits : k <= j]

\* pattern.search(q) for a pattern of fixed words followed by (.+)$ : the
\* words after the leftmost occurrence of one of `heads` whose remainder is
\* not empty and lies in the last line ('.' does not match a line break).
\* <<>> when there is no match.
SearchTail(q, heads) ==
    LET F == Flatten(q)
        before == BeforeLastLine(q)
        at(k, h) == /\ k + Len(h) <= Len(F)
                    /\ k + Len(h) > before
                    /\ F[k] = h[1]
                    /\ SubSeq(F, k, k + Len(h) - 1) = h
        hits == {k \in 1..Len(F) : \E h \in heads : at(k, h)}
    IN  IF hits = {} THEN <<>>
        ELSE LET k == CHOOSE x \in hits : \A j \in hits : x <= j
                 h == CHOOSE x \in heads : at(k, x)
             IN  SubSeq(F, k + Len(h), Len(F))

_RE_CUANTOS_CONTRATOS ==
    {<<a, b, "ha", "ganado">> : a \in {"cuantos", "cuanto"},
                                b \in {"contratos", "contrato"}}

_RE_BUSCA_INFO ==
    {<<a, b, c>> : a \in {"busca", "buscas", "buscar"},
                   b \in {"info", "informacion"}, c \in {"sobre", "de"}}

_RE_ADJUDICACIONES ==
    {<<a, b>> : a \in {"adjudicaciones", "contratos"}, b \in {"de", "del"}}

_RE_QUE_HA_GANADO ==
    {<<"que", b, "ha", "ganado">> : b \in {"contratos", "contrato"}}

_RE_HA_GANADO_CORTO == {<<"ha", "ganado">>}

\* _RE_IMPORTE_TOTAL: an amount phrase, then anything, then the last of
\* "ha ganado", "adjudicado", "a" that still has words after it (.* is
\* greedy); modelled for a match inside the last line
ImporteHeads == {<<"importe", "total">>, <<"total", "adjudicado">>,
                 <<"cuanto", "dinero">>, <<"cuanto", "importe">>}

_RE_IMPORTE_TOTAL(q) ==
    LET F == Flatten(q)
        head(k) == /\ k > BeforeLastLine(q)
                   /\ k + 1 <= Len(F)
                   /\ SubSeq(F, k, k + 1) \in ImporteHeads
        key(j) == /\ j < Len(F)
                  /\ \/ /\ F[j] \in {"adjudicado", "a"}
                        /\ \E k \in 1..Len(F) : head(k) /\ k + 2 <= j
                     \/ /\ j >= 2 /\ F[j - 1] = "ha" /\ F[j] = "ganado"
                        /\ \E k \in 1..Len(F) : head(k) /\ k + 2 <= j - 1
        keys == {j \in 1..Len(F) : key(j)}
    IN  IF keys = {} THEN <<>>
        ELSE SubSeq(F, (CHOOSE j \in keys : \A i \in keys : i <= j) + 1, Len(F))

\* _RE_Y_SIMPLE.match(q): "y", then the shortest text that leaves only
\* question and exclamation marks behind it; for an utterance of one line
_RE_Y_SIMPLE(q) ==
    LET F == Flatten(q)
        marks == {"?", "!"}
        ends == {m \in 2..Len(F) : \A j \in (m + 1)..Len(F) : F[j] \in marks}
    IN  IF Len(q) = 1 /\ Len(F) >= 2 /\ F[1] = "y"
        THEN SubSeq(F, 2, CHOOSE m \in ends : \A j \in ends : m <= j)
        ELSE <<>>

\* _RE_PREV_REF.search(q): "ese contrato", "el texto anterior" ...
_RE_PREV_REF(q) ==
    LET F == Flatten(q)
    IN  \E k \in 1..(Len(F) - 1) :
           /\ F[k] \in {"ese", "este", "esa", "esta", "dicho", "anterior",
                        "previo", "ultimo"}
           /\ F[k + 1] \in {"contrato", "expediente", "pliego", "texto"}

_RE_FOLLOWUP_HINT(q) ==
    LET F == Flatten(q)
    IN  /\ F # <<>>
        /\ \/ F[1] \in {"y", "ademas", "tambien"}
           \/ Len(F) >= 2 /\ F[1] = "otra" /\ F[2] = "cosa"

_RE_FOLLOWUP_KEYWORDS(q) ==
    LET F == Flatten(q)
    IN  \/ \E k \in 1..Len(F) :
              F[k] \in {"importe", "presupuesto", "duracion", "plazo", "fecha",
                        "cuando", "quien", "cual", "cuales", "detalle",
                        "detalles", "normativa", "ley", "lcsp", "rglcap",
                        "ens", "rgpd"}
        \/ \E k \in 1..(Len(F) - 2) :
              SubSeq(F, k, k + 2) = <<"proteccion", "de", "datos">>

\* _is_contextual_followup(q, history, last_state); last_state is the
\* session's router memory, a dict that always has keys
_is_contextual_followup(q, history) ==
    LET candidate == _clean_empresa(Flatten(q))
        words == Len(StripRight(StripLeft(Flatten(q))))
    IN  IF history = <<>> THEN FALSE
        ELSE IF CharLen(q) > 160 THEN FALSE
        ELSE IF candidate # "" /\ words <= 6 /\ ~_RE_FOLLOWUP_KEYWORDS(q) THEN FALSE
        ELSE IF _RE_FOLLOWUP_HINT(q) THEN TRUE
        ELSE IF (\E k \in 1..Len(Flatten(q)) : Flatten(q)[k] = "?")
                /\ _RE_FOLLOWUP_KEYWORDS(q) THEN TRUE
        ELSE Len(Flatten(q)) <= 8 /\ _RE_FOLLOWUP_KEYWORDS(q)

\* A JSON value as detect_intent looks at it: its type, its text when it is
\* a string, its items when it is an array of strings.
JMissing == [t |-> "missing", s |-> "", l |-> {}]
JNull == [t |-> "null", s |-> "", l |-> {}]
JNum == [t |-> "num", s |-> "5", l |-> {}]
JStr(x) == [t |-> "str", s |-> x, l |-> {}]
JList(xs) == [t |-> "list", s |-> "", l |-> xs]
JTrue == [t |-> "bool", s |-> "true", l |-> {}]

\* bool(v) of Python; a missing key reads as None
Truthy(v) ==
    CASE v.t \in {"missing", "null"} -> FALSE
      [] v.t = "str" -> v.s # ""
      [] v.t = "list" -> v.l # {}
      [] OTHER -> v.s # "false"

\* str.upper() on the words that matter here
Upper(s) ==
    CASE s = "empresa" -> "EMPRESA"
      [] s = "contrato" -> "CONTRATO"
      [] OTHER -> s

\* config.KNOWN_EXTRACTO_TYPES
KNOWN_EXTRACTO_TYPES ==
    {"normativa", "garantia_definitiva", "garantia_otros_tipos",
     "solvencia_tecnica", "solvencia_economica", "criterios_ambientales",
     "clausulas_sociales", "clausulas_igualdad_genero"}

_normalize_extracto_types_Unfiltered(tipos) ==
    IF tipos.t # "list" THEN {} ELSE tipos.l

\* _normalize_extracto_types; {} is None
_normalize_extracto_types(tipos) ==
    IF tipos.t # "list" THEN {} ELSE tipos.l \cap KNOWN_EXTRACTO_TYPES

\* What the completion provider answered to the fallback prompt, as
\* safe_json_loads reads it: text that is not JSON, the JSON null, a JSON
\* array, or a JSON object with these keys.
ModelResponse(kind, intent, doc_tipo, extracto_tipos, focus, empresa_query, empresa_nif, is_followup) ==
    [kind |-> kind, intent |-> intent, doc_tipo |-> doc_tipo,
     extracto_tipos |-> extracto_tipos, focus |-> focus,
     empresa_query |-> empresa_query, empresa_nif |-> empresa_nif,
     is_followup |-> is_followup]

EmptyObject ==
    ModelResponse("object", JMissing, JMissing, JMissing, JMissing, JMissing,
                  JMissing, JMissing)

\* no completion call was made
NoResponse == [EmptyObject EXCEPT !.kind = "none"]

\* what detect_intent returns, with the number of completion calls it made;
\* raised: an exception left detect_intent
IntentOut(calls, rule, r, doc_tipo, extracto_tipos) ==
    [raised |-> FALSE, llm_calls |-> calls, rule |-> rule, intent |-> r,
     doc_tipo |-> doc_tipo, extracto_tipos |-> extracto_tipos]

IntentRaised == [IntentOut(1, "model", NoIntent, "", {}) EXCEPT !.raised = TRUE]

\* last_state.get(key): None for a key the dict does not have
LastDocTipo(last_state) ==
    IF "last_doc_tipo" \in DOMAIN last_state THEN last_state.last_doc_tipo ELSE ""

LastExtractoTipos(last_state) ==
    IF "last_extracto_tipos" \in DOMAIN last_state
    THEN last_state.last_extracto_tipos ELSE {}

\* detect_intent lines 185-197 and 267-279: the result copied from memory
FollowupFromMemory(rule, last_state) ==
    IntentOut(0, rule,
              IntentResult("RAG_QA", TRUE,
                           IF Upper(last_state.last_focus) = "" THEN "CONTRATO"
                           ELSE Upper(last_state.last_focus),
                           last_state.last_empresa_query,
                           last_state.last_empresa_nif),
              LastDocTipo(last_state), LastExtractoTipos(last_state))

\* detect_intent lines 313-350 on the provider's response
ModelFallback(q, resp) ==
    LET data == IF resp.kind \in {"unparsable", "null"} THEN EmptyObject ELSE resp
        intent == IF data.intent.t = "str"
                     /\ data.intent.s \in {"RAG_QA", "CYPHER_QA", "GENERATE_PPT"}
                  THEN data.intent.s ELSE "RAG_QA"
        doc_tipo == IF data.doc_tipo.t = "str" /\ data.doc_tipo.s \in {"PPT", "PCAP"}
                    THEN data.doc_tipo.s ELSE ""
        tipos == _normalize_extracto_types(data.extracto_tipos)
        focus0 == IF Truthy(data.focus) THEN Upper(data.focus.s) ELSE "CONTRATO"
        focus == IF focus0 \in {"CONTRATO", "EMPRESA"} THEN focus0 ELSE "CONTRATO"
        empresa_query == IF data.empresa_query.t = "str"
                         THEN _clean_empresa(<<data.empresa_query.s>>) ELSE ""
        nif0 == IF Truthy(data.empresa_nif) THEN _extract_cif(<<data.empresa_nif.s>>)
                ELSE ""
        empresa_nif == IF nif0 # "" THEN nif0 ELSE _extract_cif(Flatten(q))
    IN  IF resp.kind = "array" THEN IntentRaised                \* data.get
        ELSE IF Truthy(data.focus) /\ data.focus.t # "str"
        THEN IntentRaised                                       \* .strip()
        ELSE IF Truthy(data.empresa_nif) /\ data.empresa_nif.t # "str"
        THEN IntentRaised                                       \* text.upper()
        ELSE IntentOut(1, "model",
                       IntentResult(intent, Truthy(data.is_followup), focus,
                                    empresa_query, empresa_nif),
                       doc_tipo, tipos)

\* one rule of the form "pattern, then a company": lines 199-264
EmpresaRule(q, heads) == _clean_empresa(SearchTail(q, heads))

\* detect_intent lines 118-279: the rules that answer without the completion
\* provider, in the order of the code; rule "model" when none of them
\* applies.  needs_aggregation, which nothing reads, is left out.
LexicalRules(q, history, last_state) ==
    LET last_focus == Upper(last_state.last_focus)
        cif == _extract_cif(Flatten(q))
        lexical(rule, i, fu, empresa) ==
            IntentOut(0, rule, IntentResult(i, fu, "EMPRESA", empresa, cif), "", {})
        aggregation(rule, tail) ==
            LET empresa == _clean_empresa(tail)
            IN  IntentOut(0, rule,
                          IntentResult("CYPHER_QA", FALSE,
                                       IF empresa # "" THEN "EMPRESA" ELSE "CONTRATO",
                                       empresa, cif),
                          "", {})
    IN  IF _GREET_RE(q) THEN IntentOut(0, "greeting", GreetingResult, "", {})
        ELSE IF SearchTail(q, _RE_CUANTOS_CONTRATOS) # <<>>
        THEN aggregation("cuantos_contratos", SearchTail(q, _RE_CUANTOS_CONTRATOS))
        ELSE IF _RE_IMPORTE_TOTAL(q) # <<>>
        THEN aggregation("importe_total", _RE_IMPORTE_TOTAL(q))
        ELSE IF _RE_Y_SIMPLE(q) # <<>> /\ last_focus = "EMPRESA"
                /\ _clean_empresa(_RE_Y_SIMPLE(q)) # ""
        THEN lexical("y_simple", "RAG_QA", TRUE, _clean_empresa(_RE_Y_SIMPLE(q)))
        ELSE IF _RE_PREV_REF(q) /\ last_state.last_contratos # ""
        THEN FollowupFromMemory("prev_ref", last_state)
        ELSE IF EmpresaRule(q, _RE_BUSCA_INFO) # ""
        THEN lexical("busca_info", "RAG_QA", FALSE, EmpresaRule(q, _RE_BUSCA_INFO))
        ELSE IF EmpresaRule(q, _RE_ADJUDICACIONES) # ""
        THEN lexical("adjudicaciones", "RAG_QA", FALSE,
                     EmpresaRule(q, _RE_ADJUDICACIONES))
        ELSE IF EmpresaRule(q, _RE_QUE_HA_GANADO) # ""
        THEN lexical("que_ha_ganado", "RAG_QA", FALSE,
                     EmpresaRule(q, _RE_QUE_HA_GANADO))
        ELSE IF EmpresaRule(q, _RE_HA_GANADO_CORTO) # ""
        THEN lexical("ha_ganado", "RAG_QA", FALSE,
                     EmpresaRule(q, _RE_HA_GANADO_CORTO))
        ELSE IF _is_contextual_followup(q, history)
        THEN FollowupFromMemory("contextual", last_state)
        ELSE IntentOut(1, "model", NoIntent, "", {})

\* detect_intent(question, history, last_state) when the completion
\* provider, if asked, answers resp
detect_intent(q, history, last_state, resp) ==
    LET lex == LexicalRules(q, history, last_state)
    IN  IF lex.rule # "model" THEN lex ELSE ModelFallback(q, resp)

\* the runs of detect_intent over the answers the provider may give: the
\* answer read, if any, and the outcome
detect_intent_runs(q, history, last_state, responses) ==
    LET lex == LexicalRules(q, history, last_state)
    IN  IF lex.rule # "model" THEN {[resp |-> NoResponse, out |-> lex]}
        ELSE {[resp |-> resp, out |-> ModelFallback(q, resp)] : resp \in responses}

detect_intent_outcomes(q, history, last_state, responses) ==
    {run.out : run \in detect_intent_runs(q, history, last_state, responses)}

\* the completion call of line 313 is reached
CallsModel(q, history, last_state) ==
    LexicalRules(q, history, last_state).rule = "model"

\* a JSON object the provider may answer with
Classified(intent, focus, empresa_query, is_followup) ==
    ModelResponse("object", JStr(intent), JMissing, JMissing, focus, empresa_query,
                  JMissing, is_followup)

\* the responses of the completion provider the conversation is checked with
Responses ==
    {Classified("RAG_QA", fo, e, fu) :
         fo \in {JMissing, JStr("empresa")},
         e \in {JMissing, JStr("A"), JStr("B")},
         fu \in {JMissing, JTrue}}
    \cup {Classified("CYPHER_QA", JMissing, JMissing, JMissing)}
    \cup {Classified("CYPHER_QA", JStr("EMPRESA"), e, JMissing) :
              e \in {JNull, JStr("A"), JStr("B")}}
    \cup {Classified("GENERATE_PPT", JMissing, JMissing, JMissing)}
    \cup {[EmptyObject EXCEPT !.kind = "unparsable"],
          [EmptyObject EXCEPT !.kind = "array"]}

\* orchestrator._empresa_lookup
_empresa_lookup(i, rs) ==
    IF i.empresa_nif # "" THEN i.empresa_nif
    ELSE IF i.empresa_query # "" THEN i.empresa_query
    ELSE IF rs.last_empresa_nif # "" THEN rs.last_empresa_nif
    ELSE IF rs.last_empresa_query # "" THEN rs.last_empresa_query
    ELSE ""

DraftUtterances ==
    { << <<"pliego", "de", "limpieza">> >>,
      << <<"1.", "diesel">>, <<"2.", "50000">> >> }

DraftResponses ==
    {Classified("RAG_QA", JMissing, JMissing, JMissing),
     Classified("GENERATE_PPT", JMissing, JMissing, JMissing)}

NoState ==
    [question |-> <<>>, history |-> <<>>, router_state |-> InitRouterState,
     intent |-> NoIntent, result |-> "none"]

Entry(t, role) == [turn |-> t, role |-> role]

(***************************************************************************)
(* services/graph_nodes.py and services/graph.py: the pure parts           *)
(***************************************************************************)
router_node_KeepsRequestBase(q, rs, r) ==
    LET i == IF rs.ppt_pending /\ is_technical_answer(q)
             THEN [r EXCEPT !.intent = "GENERATE_PPT"] ELSE r
        cancel == rs.ppt_pending /\ i.intent # "GENERATE_PPT"
    IN  [intent |-> i,
         router_state |-> IF cancel THEN [rs EXCEPT !.ppt_pending = FALSE] ELSE rs,
         copied |-> cancel]

\* router_node lines 66-83 on the Intent Result r that detect_intent returned;
\* `copied` tells that router_state was rebuilt as a new dict (line 81)
router_node(q, rs, r) ==
    LET i == IF rs.ppt_pending /\ is_technical_answer(q)
             THEN [r EXCEPT !.intent = "GENERATE_PPT"] ELSE r
        cancel == rs.ppt_pending /\ i.intent # "GENERATE_PPT"
    IN  [intent |-> i,
         router_state |-> IF cancel
                          THEN [rs EXCEPT !.ppt_pending = FALSE, !.ppt_request_base = {}]
                          ELSE rs,
         copied |-> cancel]

route_intent_DraftBeforeGreeting(i) ==
    IF i.intent = "GENERATE_PPT" THEN "ppt_plan"
    ELSE IF i.is_greeting THEN "greeting"
    ELSE IF i.intent = "CYPHER_QA" THEN "cypher"
    ELSE IF i.intent = "SIMPLE_CHAT" THEN "simple_chat"
    ELSE "rag"

\* graph.py route_intent
route_intent(i) ==
    IF i.is_greeting THEN "greeting"
    ELSE IF i.intent = "GENERATE_PPT" THEN "ppt_plan"
    ELSE IF i.intent = "CYPHER_QA" THEN "cypher"
    ELSE IF i.intent = "SIMPLE_CHAT" THEN "simple_chat"
    ELSE "rag"

route_rag(i) == IF i.needs_cypher_fallback THEN "cypher" ELSE "post_process"

\* graph.py route_simple_chat, on intent.get("needs_rag_fallback")
route_simple_chat(needs_rag_fallback) ==
    IF needs_rag_fallback THEN "router" ELSE "post_process"

\* simple_chat_node line 575: f"busca en base de datos: {question}"
forced_question(q) ==
    << <<"busca", "en", "base", "de", "datos", ":">> \o q[1] >> \o Tail(q)

route_ppt(i) == IF i.ppt_clarifications_needed THEN "post_process" ELSE "ppt_generate"

\* ppt_plan_node lines 406-449 in turn t, `need` being the model's
\* need_clarification verdict.  plan["normalized_request"] is the model's
\* rewording of full_context, or full_context itself (ppt_generation.py:52).
\* ppt_plan is plan["need_clarification"] as stored in intent["ppt_plan"],
\* that is after line 421 has dropped it at the round cap.
ppt_plan_node(rs, t, need) ==
    LET is_pending == rs.ppt_pending
        base_req == rs.ppt_request_base
        ppt_rounds == rs.ppt_rounds
        full_context == IF is_pending /\ base_req # {} THEN base_req \cup {t} ELSE {t}
        force_clarification == ~is_pending
        need_clarification == IF ppt_rounds >= 2 /\ need THEN FALSE ELSE need
    IN  IF force_clarification \/ need_clarification
        THEN [ppt_clarifications_needed |-> TRUE,
              ppt_plan |-> need_clarification,
              router_state |-> [rs EXCEPT !.ppt_pending = TRUE,
                                          !.ppt_request_base = full_context,
                                          !.ppt_rounds = ppt_rounds + 1]]
        ELSE [ppt_clarifications_needed |-> FALSE,
              ppt_plan |-> need_clarification,
              router_state |-> [rs EXCEPT !.ppt_pending = FALSE,
                                          !.ppt_request_base = {},
                                          !.ppt_rounds = 0]]

\* rag_node lines 194-200
entity_switch(i, rs) ==
    /\ i.empresa_query # ""
    /\ rs.last_empresa_query # ""
    /\ i.empresa_query # rs.last_empresa_query

use_cached_context_NeedsCompany(i, rs) ==
    i.is_followup /\ rs.last_contratos # "" /\ i.empresa_query # ""
                  /\ ~entity_switch(i, rs)

use_cached_context(i, rs) ==
    i.is_followup /\ rs.last_contratos # "" /\ ~entity_switch(i, rs)

\* rag_node lines 213-223: the assignments into the router_state dict itself
rag_inplace_empresa(rs, i, lookup, nif, contratos) ==
    LET r1 == [rs EXCEPT !.last_focus = "EMPRESA",
                         !.last_empresa_query = lookup,
                         !.last_empresa_nif = nif]
        r2 == IF entity_switch(i, rs)
              THEN [r1 EXCEPT !.last_contratos = "", !.last_capitulos = ""]
              ELSE r1
    IN  IF contratos # "" THEN [r2 EXCEPT !.last_contratos = contratos] ELSE r2

(***************************************************************************)
(* detect_intent over the turns of a session: each turn classifies an      *)
(* utterance against the history and the router memory the earlier turns   *)
(* left, and the node the turn is routed to writes the memory the next     *)
(* turn reads.                                                             *)
(***************************************************************************)
MaxIntentTurns == 2

\* app.py on_chat_start: the keys of router memory that detect_intent,
\* cypher_node and rag_node read
InitIntentMemory ==
    [last_focus |-> "", last_empresa_query |-> "", last_empresa_nif |-> "",
     last_contratos |-> "", last_doc_tipo |-> "", last_extracto_tipos |-> {}]

IntentUtterances ==
    { << <<"hola">> >>,
      << <<"cuantos", "contratos", "ha", "ganado", "A">> >>,
      << <<"cuantos", "contratos", "ha", "ganado", "B", "?">> >>,
      << <<"cuantos", "contratos", "ha", "ganado", "la", "empresa", "A">> >>,
      << <<"cuantos", "contratos", "ha", "ganado", "en", "2024">> >>,
      << <<"cuantos", "contratos", "ha", "ganado", "eso", "?">> >>,
      << <<"cuantos", "contratos", "ha", "ganado">>, <<"NB">> >>,
      << <<"cuantos", "contratos", "ha", "ganado", "A">>, <<"en", "2024">> >>,
      << <<"importe", "total", "adjudicado", "a", "B">> >>,
      << <<"y", "B", "?">> >>,
      << <<"y", "eso", "?">> >>,
      << <<"y", "el", "plazo", "?">> >>,
      << <<"ese", "contrato">> >>,
      << <<"busca", "info", "sobre", "A">> >>,
      << <<"contratos", "de", "B">> >>,
      << <<"que", "contratos", "ha", "ganado", "A", "?">> >>,
      << <<"ha", "ganado", "B">> >>,
      << <<"cual", "es", "el", "plazo">> >>,
      << <<"y", "que", "mas", "me", "puedes", "contar", "de", "eso">> >>,
      << <<"pliego", "de", "limpieza">> >> }

\* answers of the completion provider: text that is not JSON, null, an
\* array, and objects with missing, unknown and wrongly typed values
IntentResponses ==
    {[EmptyObject EXCEPT !.kind = k] : k \in {"unparsable", "null", "array", "object"}}
    \cup {[EmptyObject EXCEPT !.intent = v] :
              v \in {JStr("CYPHER_QA"), JStr("GENERATE_PPT"), JStr("SIMPLE_CHAT"), JNum}}
    \cup {[EmptyObject EXCEPT !.doc_tipo = v] :
              v \in {JStr("PPT"), JStr("PCAP"), JStr("ANEXO"), JNum}}
    \cup {[EmptyObject EXCEPT !.extracto_tipos = v] :
              v \in {JList({"normativa", "presupuesto_base"}), JList({"CPV"}),
                     JStr("normativa")}}
    \cup {[EmptyObject EXCEPT !.focus = v] :
              v \in {JStr("empresa"), JStr("LOTE"), JNull, JNum, JList({"EMPRESA"})}}
    \cup {[EmptyObject EXCEPT !.empresa_query = v, !.focus = JStr("EMPRESA")] :
              v \in {JStr("A"), JStr("?"), JNum}}
    \cup {[EmptyObject EXCEPT !.empresa_nif = v] : v \in {JStr("NA"), JNum}}
    \cup {[EmptyObject EXCEPT !.is_followup = JTrue]}

\* What the node the turn is routed to leaves in router memory (greeting_node,
\* the planner: nothing; cypher_node lines 140-147 and 164-167; rag_node
\* lines 213-215, 259-265, 287 and 338-379), `found` being the contracts the
\* turn's search returned and `nif` the tax id of the company it resolved.
NodeMemory(rs, d, found, nif) ==
    LET i == d.intent
        lookup == _empresa_lookup(i, rs)
        company == [rs EXCEPT !.last_focus = "EMPRESA",
                              !.last_empresa_query = lookup,
                              !.last_empresa_nif = IF nif # "" THEN nif
                                                   ELSE i.empresa_nif,
                              !.last_contratos = found]
    IN  IF i.is_greeting \/ i.intent = "GENERATE_PPT" THEN rs
        ELSE IF i.intent = "CYPHER_QA"
        THEN IF i.focus = "EMPRESA" /\ lookup # "" THEN company
             ELSE [rs EXCEPT !.last_focus = "CONTRATO"]
        ELSE IF i.focus = "EMPRESA"
        THEN IF use_cached_context(i, rs) THEN [rs EXCEPT !.last_focus = "EMPRESA"]
             ELSE company
        ELSE IF use_cached_context(i, rs)
        THEN [rs EXCEPT !.last_focus = "CONTRATO",
                        !.last_doc_tipo = IF d.doc_tipo # "" THEN d.doc_tipo
                                          ELSE rs.last_doc_tipo,
                        !.last_extracto_tipos = IF d.extracto_tipos # {}
                                                THEN d.extracto_tipos
                                                ELSE rs.last_extracto_tipos]
        ELSE [rs EXCEPT !.last_focus = "CONTRATO",
                        !.last_contratos = found,
                        !.last_doc_tipo = d.doc_tipo,
                        !.last_extracto_tipos = d.extracto_tipos]

DiIdle ==
    /\ di_pc = "off"
    /\ di_q = <<>>
    /\ di_resp = NoResponse
    /\ di_out = IntentOut(0, "none", NoIntent, "", {})
    /\ di_history = <<>>
    /\ di_last = InitIntentMemory
    /\ di_turn = 0

InitDi ==
    /\ di_pc = "ask"
    /\ di_q = <<>>
    /\ di_resp = NoResponse
    /\ di_out = IntentOut(0, "none", NoIntent, "", {})
    /\ di_history = <<>>
    /\ di_last = InitIntentMemory
    /\ di_turn = 0

\* router_node line 58: the utterance of the turn is classified
DiDetect ==
    /\ di_pc = "ask"
    /\ di_turn < MaxIntentTurns
    /\ \E q \in IntentUtterances :
          \E run \in detect_intent_runs(q, di_history, di_last, IntentResponses) :
             /\ di_q' = q
             /\ di_resp' = run.resp
             /\ di_out' = run.out
    /\ di_pc' = "told"
    /\ di_turn' = di_turn + 1
    /\ UNCHANGED <<di_history, di_last>>
    /\ UNCHANGED nondi

\* the turn runs to its end: the node writes router memory, the exchange is
\* appended to the history
DiRemember ==
    /\ di_pc = "told"
    /\ ~di_out.raised
    /\ LET lookup == _empresa_lookup(di_out.intent, di_last)
       IN  \E found \in {"", "*"}, nif \in {"", NifOf(CompanyOf(lookup))} :
              di_last' = NodeMemory(di_last, di_out, found, nif)
    /\ di_history' = Append(di_history, Entry(di_turn, "user"))
    /\ di_pc' = "ask"
    /\ UNCHANGED <<di_q, di_resp, di_out, di_turn>>
    /\ UNCHANGED nondi

\* the turn fails (in detect_intent or later): nothing is remembered
DiFail ==
    /\ di_pc = "told"
    /\ di_pc' = "ask"
    /\ UNCHANGED <<di_q, di_resp, di_out, di_turn, di_history, di_last>>
    /\ UNCHANGED nondi

(***************************************************************************)
(* services/orchestrator.py and the graph run, cut at the external calls   *)
(***************************************************************************)
InitOrch ==
    /\ sess = on_chat_start
    /\ st = NoState
    /\ rs_shared = FALSE
    /\ pc = "idle"
    /\ turn = 0
    /\ nodes_run = <<>>
    /\ graph_run = "none"
    /\ pre = on_chat_start
    /\ orch_answer = ""
    /\ plan_calls = 0

\* a node returned: the graph moves on along its edge
Returned(node, next, newst, shared) ==
    /\ pc' = next
    /\ st' = newst
    /\ rs_shared' = shared
    /\ nodes_run' = Append(nodes_run, node)
    /\ UNCHANGED <<turn, graph_run, pre, orch_answer>>

NodeDone(node, next, newst, shared) ==
    /\ Returned(node, next, newst, shared)
    /\ UNCHANGED plan_calls

GraphRaised_Propagates(node) ==
    /\ pc' = "idle"
    /\ graph_run' = "raised"
    /\ nodes_run' = Append(nodes_run, node)
    /\ st' = NoState
    /\ rs_shared' = FALSE
    /\ UNCHANGED <<turn, pre, orch_answer, plan_calls>>

\* an external call inside a node raised: no node catches it, ainvoke raises
\* into the except clause of orchestrate_message, which reads none of the
\* turn's state
GraphRaised(node) ==
    /\ pc' = "except"
    /\ graph_run' = "raised"
    /\ nodes_run' = Append(nodes_run, node)
    /\ st' = NoState
    /\ rs_shared' = FALSE
    /\ UNCHANGED <<turn, pre, orch_answer, plan_calls>>

\* orchestrate_message returns, leaving the session as newsess: its locals
\* are gone
EndTurn(newsess) ==
    /\ pc' = "idle"
    /\ sess' = newsess
    /\ pre' = newsess
    /\ st' = NoState
    /\ rs_shared' = FALSE
    /\ nodes_run' = <<>>
    /\ graph_run' = "none"
    /\ orch_answer' = ""
    /\ UNCHANGED <<turn, plan_calls>>

\* orchestrate_message lines 93-136: read the session, copy the draft flags
\* into the session's router_state dict, start the graph at Router
OrchBeginWith(utterances, max_turns) ==
    /\ pc = "idle"
    /\ turn < max_turns
    /\ \E q \in utterances :
          LET router_state == [sess.router_state EXCEPT
                                   !.ppt_pending = sess.ppt_pending,
                                   !.ppt_request_base = sess.ppt_request_base]
          IN  /\ sess' = [sess EXCEPT !.router_state = router_state]
              /\ st' = [question |-> q, history |-> sess.history,
                        router_state |-> router_state, intent |-> NoIntent,
                        result |-> "none"]
    /\ rs_shared' = TRUE
    /\ pc' = "router"
    /\ turn' = turn + 1
    /\ nodes_run' = <<>>
    /\ graph_run' = "running"
    /\ pre' = sess
    /\ orch_answer' = ""
    /\ UNCHANGED plan_calls
    /\ UNCHANGED nonor

\* router_node; the completion call of detect_intent's fallback may raise,
\* and so may the reading of what it answered
RouterNodeFrom(outcomes) ==
    /\ pc = "router"
    /\ LET ds == outcomes
       IN  \/ /\ \E d \in ds : d.llm_calls = 1
              /\ GraphRaised("router")
           \/ \E d \in ds :
                 LET out == router_node(st.question, st.router_state, d.intent)
                 IN  IF d.raised
                     THEN GraphRaised("router")
                     ELSE NodeDone("router", route_intent(out.intent),
                                   [st EXCEPT !.intent = out.intent,
                                              !.router_state = out.router_state],
                                   rs_shared /\ ~out.copied)
    /\ UNCHANGED sess
    /\ UNCHANGED nonor

RouterNodeWith(responses) ==
    RouterNodeFrom(detect_intent_outcomes(st.question, st.history,
                                          st.router_state, responses))

GreetingNode ==
    /\ pc = "greeting"
    /\ NodeDone("greeting", "post_process", [st EXCEPT !.result = "answer"], rs_shared)
    /\ UNCHANGED sess
    /\ UNCHANGED nonor

CypherCompanyNotFound_ReportsError ==
    NodeDone("cypher", "post_process", [st EXCEPT !.result = "error"], rs_shared)

\* cypher_node lines 117-119: empresa_awards_stats finds no such company
CypherCompanyNotFound ==
    NodeDone("cypher", "post_process", [st EXCEPT !.result = "answer"], rs_shared)

\* cypher_node: the company card (lines 111-156) or cypher_qa (159-175)
CypherNode ==
    /\ pc = "cypher"
    /\ LET i == st.intent
           rs == st.router_state
           lookup == _empresa_lookup(i, rs)
       IN  IF i.focus = "EMPRESA" /\ lookup # ""
           THEN \/ GraphRaised("cypher")
                \/ CypherCompanyNotFound
                \/ \E nif \in {"N/D", NifOf(CompanyOf(lookup))},
                      contratos \in {"", CompanyOf(lookup)} :
                      NodeDone("cypher", "post_process",
                               [st EXCEPT !.result = "answer",
                                          !.router_state =
                                              [rs EXCEPT !.last_intent = "CYPHER_QA",
                                                         !.last_focus = "EMPRESA",
                                                         !.last_empresa_query = lookup,
                                                         !.last_empresa_nif =
                                                             IF nif # "N/D" THEN nif
                                                             ELSE i.empresa_nif,
                                                         !.last_contratos = contratos]],
                               FALSE)
           ELSE \/ GraphRaised("cypher")
                \/ NodeDone("cypher", "post_process", [st EXCEPT !.result = "error"],
                            rs_shared)
                \/ \E res \in {"answer", "long_answer"} :
                      NodeDone("cypher", "post_process",
                               [st EXCEPT !.result = res,
                                          !.router_state =
                                              [rs EXCEPT !.last_intent = "CYPHER_QA",
                                                         !.last_focus = "CONTRATO"]],
                               FALSE)
    /\ UNCHANGED sess
    /\ UNCHANGED nonor

\* what the in-place assignments of rag_node do to the session's dict
InPlace(rs) == IF rs_shared THEN [sess EXCEPT !.router_state = rs] ELSE sess

\* what embed_text returns to a node: [] or a vector
Embeddings == {"empty", "vector"}

\* rag_node lines 205-224: the tax id of the company found and its contracts,
\* as search_empresas and search_contratos_by_empresa may return them
RagEmpresaFound(i, lookup) ==
    (IF lookup = "" THEN {i.empresa_nif}
     ELSE {"", NifOf(CompanyOf(lookup)), i.empresa_nif})
    \X (IF lookup = "" THEN {""} ELSE {"", CompanyOf(lookup)})

\* rag_node lines 226-284: embed_text has returned embedding; the chapter
\* search runs only with contracts and a vector
RagEmpresaFreshReturns(embedding) ==
    LET i == st.intent
        rs == st.router_state
        lookup == _empresa_lookup(i, rs)
    IN  \E found \in RagEmpresaFound(i, lookup) :
           LET nif == found[1]
               contratos == found[2]
               rs1 == IF lookup # ""
                      THEN rag_inplace_empresa(rs, i, lookup, nif, contratos)
                      ELSE rs
           IN  \E capitulos \in (IF embedding = "vector" THEN {"", contratos}
                                 ELSE {""}) :
                  LET rs2 == IF contratos # "" /\ embedding = "vector"
                             THEN [rs1 EXCEPT !.last_capitulos = capitulos]
                             ELSE rs1
                      new_router_state ==
                          [rs2 EXCEPT !.last_intent = "RAG_QA",
                                      !.last_focus = "EMPRESA",
                                      !.last_empresa_query = lookup,
                                      !.last_empresa_nif = nif,
                                      !.last_contratos = contratos,
                                      !.last_capitulos = capitulos]
                  IN  /\ sess' = InPlace(rs2)
                      /\ NodeDone("rag", route_rag(i),
                                  [st EXCEPT !.result = "answer_prompt",
                                             !.router_state = new_router_state],
                                  FALSE)

\* rag_node lines 203-284: company focus, fresh search
RagEmpresaFresh ==
    /\ pc = "rag"
    /\ st.intent.focus = "EMPRESA"
    /\ ~use_cached_context(st.intent, st.router_state)
    /\ LET i == st.intent
           rs == st.router_state
           lookup == _empresa_lookup(i, rs)
       IN  \/ /\ lookup # ""              \* search_empresas / search_contratos_by_empresa fails
              /\ GraphRaised("rag")
              /\ UNCHANGED sess
           \/ \E found \in RagEmpresaFound(i, lookup) :  \* embed_text or a chapter search fails
                 /\ GraphRaised("rag")
                 /\ sess' = InPlace(IF lookup # ""
                                    THEN rag_inplace_empresa(rs, i, lookup,
                                                             found[1], found[2])
                                    ELSE rs)
           \/ \E embedding \in Embeddings : RagEmpresaFreshReturns(embedding)
    /\ UNCHANGED nonor

\* rag_node lines 285-331: company focus, remembered evidence
RagEmpresaCached ==
    /\ pc = "rag"
    /\ st.intent.focus = "EMPRESA"
    /\ use_cached_context(st.intent, st.router_state)
    /\ LET i == st.intent
           rs == st.router_state
       IN  IF is_aggregation(st.question)
           THEN LET i2 == [i EXCEPT !.intent = "CYPHER_QA", !.focus = "EMPRESA",
                                    !.needs_cypher_fallback = TRUE]
                IN  NodeDone("rag", route_rag(i2),
                             [st EXCEPT !.intent = i2, !.result = "none",
                                        !.router_state = [rs EXCEPT !.last_intent = "RAG_QA"]],
                             FALSE)
           ELSE NodeDone("rag", route_rag(i),
                         [st EXCEPT !.result = "answer_prompt",
                                    !.router_state = [rs EXCEPT !.last_intent = "RAG_QA",
                                                                !.last_focus = "EMPRESA"]],
                         FALSE)
    /\ UNCHANGED sess
    /\ UNCHANGED nonor

\* rag_node lines 341-397: embed_text has returned embedding
RagContratoReturns(embedding) ==
    LET i == st.intent
        rs == st.router_state
        cached == use_cached_context(i, rs)
    IN  IF embedding = "empty"              \* lines 342 and 354
        THEN NodeDone("rag", route_rag(i), [st EXCEPT !.result = "error"], rs_shared)
        ELSE \E contratos \in (IF cached THEN {rs.last_contratos} ELSE {"", "*"}) :
                \E capitulos \in {"", contratos} :
                   NodeDone("rag", route_rag(i),
                            [st EXCEPT !.result = "answer_prompt",
                                       !.router_state =
                                           [rs EXCEPT !.last_intent = "RAG_QA",
                                                      !.last_focus = "CONTRATO",
                                                      !.last_contratos = contratos,
                                                      !.last_capitulos = capitulos]],
                            FALSE)

\* rag_node lines 333-397: contract focus
RagContrato ==
    /\ pc = "rag"
    /\ st.intent.focus # "EMPRESA"
    /\ \/ GraphRaised("rag")               \* embed_text or an index search fails
       \/ \E embedding \in Embeddings : RagContratoReturns(embedding)
    /\ UNCHANGED sess
    /\ UNCHANGED nonor

\* ppt_plan_node; plan_ppt_clarifications calls the completion provider
PptPlanNode ==
    /\ pc = "ppt_plan"
    /\ \/ GraphRaised("ppt_plan")
       \/ \E need \in BOOLEAN :
             LET out == ppt_plan_node(st.router_state, turn, need)
                 i2 == [st.intent EXCEPT
                            !.ppt_clarifications_needed = out.ppt_clarifications_needed,
                            !.ppt_plan = out.ppt_plan]
             IN  /\ Returned("ppt_plan", route_ppt(i2),
                             [st EXCEPT !.intent = i2,
                                        !.result = IF out.ppt_clarifications_needed
                                                   THEN "answer" ELSE st.result,
                                        !.router_state = out.router_state],
                             FALSE)
                 /\ plan_calls' =
                        IF ~out.ppt_clarifications_needed THEN 0
                        ELSE IF ~st.router_state.ppt_pending
                                /\ st.router_state.ppt_rounds = 0 THEN 1
                        ELSE plan_calls + 1
    /\ UNCHANGED sess
    /\ UNCHANGED nonor

\* ppt_generate_node lines 460-489: embed_text has returned emb; with a
\* vector the node may still find no reference contract, or one without
\* chapters
PptGenerateReturns(emb) ==
    \/ NodeDone("ppt_generate", "post_process", [st EXCEPT !.result = "error"], rs_shared)
    \/ /\ emb = "vector"
       /\ NodeDone("ppt_generate", "post_process",
                   [st EXCEPT !.result = "ppt_generation_input",
                              !.router_state = [st.router_state EXCEPT
                                                    !.last_intent = "GENERATE_PPT"]],
                   FALSE)

\* ppt_generate_node
PptGenerateNode ==
    /\ pc = "ppt_generate"
    /\ \/ GraphRaised("ppt_generate")
       \/ \E emb \in Embeddings : PptGenerateReturns(emb)
    /\ UNCHANGED sess
    /\ UNCHANGED nonor

\* simple_chat_node returns with needs_rag_fallback at most this often in one
\* graph run
MaxReentries == 2

\* the returns of simple_chat_node in the graph run so far
Reentries == Cardinality({k \in 1..Len(nodes_run) : nodes_run[k] = "simple_chat"})

\* simple_chat_node, then route_simple_chat.  The completion call and the
\* sending of the notice may raise; a completion of up to 1000 tokens may be
\* longer than 3000 characters.  When the answer has one of the
\* missing-information phrases the question is rewritten, the answer is
\* dropped and the edge function sets intent["intent"] in the dict the state
\* holds before it sends the run back to Router.
SimpleChatNode ==
    /\ pc = "simple_chat"
    /\ LET new_router_state == [st.router_state EXCEPT !.last_intent = "SIMPLE_CHAT"]
       IN  \/ GraphRaised("simple_chat")
           \/ \E res \in {"answer", "long_answer"} :
                 NodeDone("simple_chat", route_simple_chat(FALSE),
                          [st EXCEPT !.result = res,
                                     !.router_state = new_router_state],
                          FALSE)
           \/ /\ Reentries < MaxReentries
              /\ NodeDone("simple_chat", route_simple_chat(TRUE),
                          [st EXCEPT !.question = forced_question(st.question),
                                     !.intent = [st.intent EXCEPT !.intent = "RAG_QA"],
                                     !.result = "none",
                                     !.router_state = new_router_state],
                          FALSE)
    /\ UNCHANGED sess
    /\ UNCHANGED nonor

\* The graph run of a turn for any classifier: router_node takes the dict
\* detect_intent returns as it is, and these are the dicts route_intent tells
\* apart, with and without a company and a follow-up mark.
AnyIntentOutcomes ==
    {IntentOut(0, "greeting", GreetingResult, "", {})}
    \cup {IntentOut(1, "model", IntentResult(i, fu, "CONTRATO", "", ""), "", {}) :
              i \in {"RAG_QA", "CYPHER_QA", "GENERATE_PPT", "SIMPLE_CHAT"},
              fu \in BOOLEAN}
    \cup {IntentOut(1, "model", IntentResult(i, fu, "EMPRESA", "A", ""), "", {}) :
              i \in {"RAG_QA", "CYPHER_QA"}, fu \in BOOLEAN}

\* a conversation with questions about what was said before
MaxChatTurns == 2

ChatUtterances ==
    { << <<"cuanto", "suman", "los", "dos", "?">> >>,
      << <<"ranking", "de", "adjudicatarias">> >> }

\* Of final_state, orchestrate_message reads error, answer_prompt,
\* ppt_generation_input, answer, intent["intent"],
\* intent["ppt_clarifications_needed"], history and router_state.
final_state(s) ==
    [s EXCEPT !.question = <<>>,
              !.intent = [NoIntent EXCEPT
                              !.intent = s.intent.intent,
                              !.ppt_clarifications_needed =
                                  s.intent.ppt_clarifications_needed]]

\* post_process_node, then END: ainvoke returns.  summarize_for_memory is
\* called for an answer of more than 3000 characters that is not a table.
PostProcessNode ==
    /\ pc = "post_process"
    /\ \/ /\ st.result = "long_answer"
          /\ GraphRaised("post_process")
       \/ /\ st.result \in {"answer", "long_answer"}   \* lines 518-522
          /\ st.router_state.last_intent = "SIMPLE_CHAT"
          /\ GraphRaised("post_process")
       \/ LET answer == st.result \in {"answer", "long_answer"}
              new_history == IF answer
                             THEN st.history \o <<Entry(turn, "user"),
                                                  Entry(turn, "assistant")>>
                             ELSE st.history
          IN  /\ pc' = "answer"
              /\ st' = final_state([st EXCEPT !.history =
                                                    LastN(new_history, MAX_HISTORY_TURNS)])
              /\ nodes_run' = Append(nodes_run, "post_process")
              /\ graph_run' = "returned"
              /\ UNCHANGED <<rs_shared, turn, pre, orch_answer, plan_calls>>
    /\ UNCHANGED sess
    /\ UNCHANGED nonor

\* a failure after ainvoke returned: still inside the try of orchestrate_message
OrchRaised ==
    /\ pc' = "except"
    /\ st' = NoState
    /\ rs_shared' = FALSE
    /\ orch_answer' = ""
    /\ UNCHANGED <<turn, nodes_run, graph_run, pre, plan_calls>>

\* orchestrate_message lines 139-268: the error result, or the answer (streamed
\* from the completion provider, or the static one) and the history commit
OrchAnswer ==
    /\ pc = "answer"
    /\ IF st.result = "error"
       THEN EndTurn(sess)
       ELSE LET current_history == Append(st.history, Entry(turn, "user"))
                streamed == st.result \in {"answer_prompt", "ppt_generation_input"}
                clarify == ~streamed /\ st.intent.ppt_clarifications_needed
                sess1 == IF clarify
                         THEN [sess EXCEPT !.ppt_pending = TRUE,
                                           !.ppt_request_base =
                                               st.router_state.ppt_request_base]
                         ELSE sess
                \* more than 3000 characters: a streamed answer or a narrated
                \* query result can be; the greeting, the company card and the
                \* clarification message (at most 7 questions out of a
                \* completion of 500 tokens) are not
                may_be_long == streamed \/ st.result = "long_answer"
            IN  \/ /\ streamed                   \* the stream fails
                   /\ OrchRaised
                   /\ UNCHANGED sess
                \/ /\ streamed                   \* the stream yields no text
                   /\ pc' = "finish"
                   /\ st' = [st EXCEPT !.history = current_history]
                   /\ UNCHANGED <<sess, rs_shared, turn, nodes_run, graph_run, pre,
                                  orch_answer, plan_calls>>
                \/ /\ may_be_long                \* summarize_for_memory fails
                   /\ OrchRaised
                   /\ sess' = sess1
                \/ /\ pc' = "finish"
                   /\ orch_answer' = "text"
                   /\ st' = [st EXCEPT !.history =
                                 Append(current_history, Entry(turn, "assistant"))]
                   /\ sess' = [sess1 EXCEPT !.history =
                                   LastN(Append(current_history, Entry(turn, "assistant")),
                                         MAX_HISTORY_TURNS)]
                   /\ UNCHANGED <<rs_shared, turn, nodes_run, graph_run, pre,
                                  plan_calls>>
    /\ UNCHANGED nonor

\* orchestrate_message lines 271-295: the follow-up suggestions, then the
\* commit of router memory and of the draft flags
OrchFinish ==
    /\ pc = "finish"
    /\ LET rs == st.router_state
           evidence == rs.last_contratos # "" \/ rs.last_capitulos # ""
           asks_followups ==
               /\ orch_answer # ""
               /\ \/ st.intent.intent = "CYPHER_QA"
                  \/ /\ st.intent.intent = "RAG_QA"
                     /\ st.result = "answer_prompt"
                     /\ evidence
       IN  \/ /\ asks_followups                  \* generate_follow_up_questions fails
              /\ OrchRaised
              /\ UNCHANGED sess
           \/ EndTurn([sess EXCEPT !.router_state = rs,
                                    !.ppt_pending = rs.ppt_pending,
                                    !.ppt_request_base = rs.ppt_request_base])
    /\ UNCHANGED nonor

\* orchestrate_message lines 349-354: the error is shown, the function returns
OrchExcept ==
    /\ pc = "except"
    /\ EndTurn(sess)
    /\ UNCHANGED nonor

(***************************************************************************)
(* The handlers of one conversation.  on_message and the callback of a     *)
(* follow-up suggestion are coroutines the framework starts for each event *)
(* it receives; orchestrate_message takes no lock and sets no flag, so a   *)
(* second call may start at any await of the first.  A call is cut at the  *)
(* awaits between its reading of the session and its two commits.          *)
(***************************************************************************)
MaxHandlerTurns == 3

Handlers == {"on_message", "on_follow_up_question"}

NoLocal == [turn |-> 0, history |-> <<>>, router_state |-> InitRouterState]

CcIdle ==
    /\ cc_sess = [history |-> <<>>, router_state |-> InitRouterState]
    /\ cc_pc = [h \in Handlers |-> "off"]
    /\ cc_local = [h \in Handlers |-> NoLocal]
    /\ cc_turn = 0

InitCc ==
    /\ cc_sess = [history |-> <<>>, router_state |-> InitRouterState]
    /\ cc_pc = [h \in Handlers |-> "idle"]
    /\ cc_local = [h \in Handlers |-> NoLocal]
    /\ cc_turn = 0

\* orchestrate_message lines 93-113: the session is read, then the first await
CcBegin(h) ==
    /\ cc_pc[h] = "idle"
    /\ cc_turn < MaxHandlerTurns
    /\ cc_turn' = cc_turn + 1
    /\ cc_local' = [cc_local EXCEPT ![h] = [turn |-> cc_turn + 1,
                                            history |-> cc_sess.history,
                                            router_state |-> cc_sess.router_state]]
    /\ cc_pc' = [cc_pc EXCEPT ![h] = "running"]
    /\ UNCHANGED cc_sess
    /\ UNCHANGED noncc

\* lines 136-268: the graph run on the state that was read (a question about
\* company c, answered from a prompt), the streamed answer, the history commit
CcAnswer(h) ==
    /\ cc_pc[h] = "running"
    /\ \E c \in Empresas :
          LET l == cc_local[h]
              current_history == l.history \o <<Entry(l.turn, "user"),
                                                Entry(l.turn, "assistant")>>
              new_router_state == [l.router_state EXCEPT !.last_intent = "RAG_QA",
                                                         !.last_focus = "EMPRESA",
                                                         !.last_empresa_query = c]
          IN  /\ cc_sess' = [cc_sess EXCEPT !.history =
                                 LastN(current_history, MAX_HISTORY_TURNS)]
              /\ cc_local' = [cc_local EXCEPT ![h] = [l EXCEPT
                                  !.history = current_history,
                                  !.router_state = new_router_state]]
    /\ cc_pc' = [cc_pc EXCEPT ![h] = "answered"]
    /\ UNCHANGED cc_turn
    /\ UNCHANGED noncc

\* lines 270-292: the suggestions (an await), then the router memory commit
CcFinish(h) ==
    /\ cc_pc[h] = "answered"
    /\ cc_sess' = [cc_sess EXCEPT !.router_state = cc_local[h].router_state]
    /\ cc_pc' = [cc_pc EXCEPT ![h] = "idle"]
    /\ cc_local' = [cc_local EXCEPT ![h] = NoLocal]
    /\ UNCHANGED cc_turn
    /\ UNCHANGED noncc

\* lines 349-354: a call that failed returns without a commit of its own
CcExcept(h) ==
    /\ cc_pc[h] \in {"running", "answered"}
    /\ cc_pc' = [cc_pc EXCEPT ![h] = "idle"]
    /\ cc_local' = [cc_local EXCEPT ![h] = NoLocal]
    /\ UNCHANGED <<cc_sess, cc_turn>>
    /\ UNCHANGED noncc

(***************************************************************************)
(* Specifications                                                          *)
(***************************************************************************)
CqIdle ==
    /\ cq_pc = "off"
    /\ cypher = <<>>
    /\ cypher2 = <<>>
    /\ executed = <<>>
    /\ hints = <<>>
    /\ rows = 0
    /\ cq_out = NoOut

OrIdle ==
    /\ sess = on_chat_start
    /\ st = NoState
    /\ rs_shared = FALSE
    /\ pc = "off"
    /\ turn = 0
    /\ nodes_run = <<>>
    /\ graph_run = "none"
    /\ pre = on_chat_start
    /\ orch_answer = ""
    /\ plan_calls = 0

Next ==
    \/ OrchBeginWith(Utterances, MaxTurns)
    \/ RouterNodeWith(Responses)
    \/ GreetingNode
    \/ CypherNode
    \/ RagEmpresaFresh
    \/ RagEmpresaCached
    \/ RagContrato
    \/ PptPlanNode
    \/ PptGenerateNode
    \/ PostProcessNode
    \/ OrchAnswer
    \/ OrchFinish
    \/ OrchExcept

Init == InitOrch /\ CqIdle /\ TrIdle /\ DiIdle /\ CcIdle

Spec == Init /\ [][Next]_vars

\* a conversation about drafting only: draft requests, replies to the
\* clarification questions, and plain questions about contracts in between
NextDraft ==
    \/ OrchBeginWith(DraftUtterances, MaxDraftTurns)
    \/ RouterNodeWith(DraftResponses)
    \/ RagContrato
    \/ PptPlanNode
    \/ PptGenerateNode
    \/ PostProcessNode
    \/ OrchAnswer
    \/ OrchFinish
    \/ OrchExcept

SpecDraft == Init /\ [][NextDraft]_vars

NextChat ==
    \/ OrchBeginWith(ChatUtterances, MaxChatTurns)
    \/ RouterNodeFrom(AnyIntentOutcomes)
    \/ GreetingNode
    \/ SimpleChatNode
    \/ CypherNode
    \/ RagEmpresaFresh
    \/ RagEmpresaCached
    \/ RagContrato
    \/ PptPlanNode
    \/ PptGenerateNode
    \/ PostProcessNode
    \/ OrchAnswer
    \/ OrchFinish
    \/ OrchExcept

SpecChat == Init /\ [][NextChat]_vars

NextHandlers ==
    \/ \E h \in Handlers : CcBegin(h)
    \/ \E h \in Handlers : CcAnswer(h)
    \/ \E h \in Handlers : CcFinish(h)
    \/ \E h \in Handlers : CcExcept(h)

InitHandlers == InitCc /\ CqIdle /\ TrIdle /\ OrIdle /\ DiIdle

SpecHandlers == InitHandlers /\ [][NextHandlers]_vars

NextCypher ==
    \/ CqGenerate
    \/ CqRegenerate
    \/ CqExecute1
    \/ CqRepairGenerate
    \/ CqExecute2
    \/ CqAnswerDirect
    \/ CqAnswer
    \/ CqRaise
    \/ CqCall

InitCypher == InitCq /\ TrIdle /\ OrIdle /\ DiIdle /\ CcIdle

SpecCypher == InitCypher /\ [][NextCypher]_vars

NextTrim ==
    \/ TrBuildContext
    \/ TrTrim
    \/ TrAgain

InitTrim == InitTr /\ CqIdle /\ OrIdle /\ DiIdle /\ CcIdle

SpecTrim == InitTrim /\ [][NextTrim]_vars

NextIntent ==
    \/ DiDetect
    \/ DiRemember
    \/ DiFail

InitIntent == InitDi /\ CqIdle /\ TrIdle /\ OrIdle /\ CcIdle

SpecIntent == InitIntent /\ [][NextIntent]_vars

(***************************************************************************)
(* Claims about cypher_qa (checked under SpecCypher)                       *)
(***************************************************************************)

\* What the claims call a write query: an updating clause of Cypher or a
\* call of a procedure that changes the store.
UpdatingClauses == {"CREATE", "MERGE", "SET", "DELETE", "DETACH", "REMOVE", "DROP"}

IsWriteQuery(c) ==
    \/ HasToken(c, UpdatingClauses)
    \/ HasPair(c, "LOAD", {"CSV"})
    \/ HasPair(c, "CALL", {"apoc.x", "dbms.x"})

\* C1: every query text passed to neo4j_query, on the first execution and on
\* the retry, is one that cypher_is_safe_readonly accepts.
C1_ExecutedPassedGate ==
    \A i \in 1..Len(executed) : cypher_is_safe_readonly(executed[i])

\* C2: a model-generated text that passes the safety gate contains no
\* updating clause and no mutating procedure call.
\* (cypher_qa is at "regen", or at "exec1" with one plan generated, right after
\* the gate accepted `cypher`; it is at "exec2" right after it accepted `cypher2`.)
C2_GatePassedIsReadOnly ==
    /\ (cq_pc = "regen" \/ (cq_pc = "exec1" /\ hints = <<"">>)) => ~IsWriteQuery(cypher)
    /\ cq_pc = "exec2" => ~IsWriteQuery(cypher2)

\* C7: one call of cypher_qa generates at most three plans (original, binding
\* repair, execution-error repair, in that order), queries the graph store at
\* most twice, and after a failed re-execution it has returned an error and
\* does nothing further.
C7_BoundedRepair ==
    /\ hints \in {<<>>, <<"">>, <<"", "binding">>, <<"", "exec_error">>,
                  <<"", "binding", "exec_error">>}
    /\ Len(executed) <= 2
    /\ cq_out.kind = "error_retry" =>
          /\ cq_pc = "done"
          /\ Len(executed) = 2
          /\ hints[Len(hints)] = "exec_error"

C7_Witness ==
    /\ cq_out.kind = "error_retry"
    /\ Len(hints) = 3
    /\ Len(executed) = 2

\* The claim's own reading of "references a property of r without declaring
\* [r:...]".
C8_UsesUnboundR(c) == HasToken(c, {"r.prop"}) /\ ~HasToken(c, {"[r:REL]"})

\* C8: when the first plan passes the gate and uses r.<prop> without [r:...],
\* the generator is called exactly once more, with the binding hint, before
\* the first execution, and the regenerated plan is the one executed; when it
\* does not, the first plan is executed with no regeneration.
C8_BindingRepairOnce ==
    [][ /\ (cq_pc = "start" /\ cq_pc' \in {"regen", "exec1"}) =>
              /\ (cq_pc' = "regen") <=> C8_UsesUnboundR(cypher')
              /\ hints' = <<"">>
              /\ executed' = <<>>
        /\ (cq_pc = "regen" /\ cq_pc' # "regen") =>
              \/ cq_out'.kind = "raised"
              \/ /\ cq_pc' = "exec1"
                 /\ hints' = <<"", "binding">>
                 /\ executed' = <<>>
        /\ (cq_pc = "exec1" /\ cq_pc' # "exec1") =>
              /\ executed' = <<cypher_ensure_limit(cypher)>>
              /\ hints' = hints
        /\ (cq_pc # "exec1" /\ cq_pc' = "exec1") => cq_pc \in {"start", "regen"}
      ]_vars

C8_Witness ==
    /\ cq_pc \in {"narrate", "raw", "preview", "repair"}
    /\ hints = <<"", "binding">>
    /\ executed = <<cypher>>

\* C30: when cypher_qa has returned because the safety gate rejected a plan,
\* the original one or the one generated after an execution error, the query
\* text in the error result is the rejected text, and no text equal to it was
\* passed to neo4j_query.
C30_Executed(c) == \E i \in 1..Len(executed) : executed[i] = c

C30_ErrorCarriesRejectedQuery ==
    /\ cq_out.kind = "error_unsafe"
           => /\ cq_out.cypher = cypher
              /\ ~cypher_is_safe_readonly(cq_out.cypher)
              /\ ~C30_Executed(cq_out.cypher)
    /\ cq_out.kind = "error_repair_unsafe"
           => /\ cq_out.cypher = cypher2
              /\ ~cypher_is_safe_readonly(cq_out.cypher)
              /\ ~C30_Executed(cq_out.cypher)

\* the rows of the result that the answer text shows; what a narration
\* shows is the completion provider's choice
C33_RowsInAnswer ==
    CASE cq_out.answer = "raw_json" -> rows
      [] cq_out.answer \in {"preview", "table"} ->
            IF rows > PreviewRows THEN PreviewRows ELSE rows
      [] OTHER -> -1

\* C33: an answer for more than 15 rows is made without a narration call,
\* shows the first 10 rows only and says that only this preview is in
\* context; a narration call for 15 rows or fewer is given every row.
C33_LargeResultIsPreviewOnly ==
    cq_out.kind = "answer" =>
        /\ rows > NarrateMaxRows =>
               /\ cq_out.rows_json = -1
               /\ cq_out.answer = "preview"
               /\ C33_RowsInAnswer = PreviewRows
        /\ (rows <= NarrateMaxRows /\ cq_out.rows_json # -1) => cq_out.rows_json = rows

(***************************************************************************)
(* Claims about the context assembly (checked under SpecTrim)              *)
(***************************************************************************)

\* C5: the system message, the kept history and the context together are
\* estimated at no more than max_context_tokens - reserve_for_answer, for
\* every context rag_node sends (company header included).
C5_FitsBudget ==
    tr_pc = "done" =>
        estimate_tokens(SystemMsgLen) + SumTokens(tr_kept) + estimate_tokens(tr_context)
            <= MODEL_MAX_CONTEXT_TOKENS - RESERVE_FOR_ANSWER_TOKENS

\* C23: the context build_context returns (the context of a prompt that has
\* no company header in front of it) has at most RAG_CONTEXT_MAX_CHARS
\* characters, the truncation marker included.
C23_ContextWithinCeiling ==
    (tr_pc # "input" /\ tr_lookup = 0) => tr_context <= RAG_CONTEXT_MAX_CHARS

C34_Used == estimate_tokens(SystemMsgLen) + estimate_tokens(tr_context)
C34_Budget == MODEL_MAX_CONTEXT_TOKENS - RESERVE_FOR_ANSWER_TOKENS

\* C34: the trimmed history is the last messages of the history it was
\* given, in their order; what is kept fits the budget, and the newest
\* message not kept is one that would not fit with them, whatever the older
\* ones cost.
C34_KeepsContiguousSuffix ==
    tr_pc = "done" =>
        LET h == LastN(tr_history, MAX_HISTORY_TURNS)
            n == Len(h)
            k == Len(tr_kept)
        IN  /\ k <= n
            /\ tr_kept = SubSeq(h, n - k + 1, n)
            /\ k > 0 => C34_Used + SumTokens(tr_kept) <= C34_Budget
            /\ k < n => C34_Used + SumTokens(tr_kept) + estimate_tokens(h[n - k].len)
                            > C34_Budget

\* the newest message is kept, the one before it would overflow, and the
\* oldest is dropped although it would fit
C34_Witness ==
    /\ tr_pc = "done"
    /\ Len(tr_history) = 3
    /\ Len(tr_kept) = 1
    /\ tr_kept[1] = tr_history[3]
    /\ C34_Used + SumTokens(tr_kept) + estimate_tokens(tr_history[1].len) <= C34_Budget

(***************************************************************************)
(* Claims about a turn: the graph run, the session, the draft dialogue      *)
(* (checked under Spec, C4 under SpecDraft)                                *)
(***************************************************************************)

\* C3: when the graph run of a turn is over, whether ainvoke returned or an
\* external call inside a node raised, PostProcess was entered exactly once
\* and it was the last node entered.
C3_PostProcessOnceAndLast ==
    graph_run \in {"returned", "raised"} =>
        /\ nodes_run # <<>>
        /\ nodes_run[Len(nodes_run)] = "post_process"
        /\ Cardinality({k \in 1..Len(nodes_run) : nodes_run[k] = "post_process"}) = 1

\* C4: counting the returns of ppt_plan_node from a fresh draft request (no
\* draft pending, round counter 0), the planner has answered READY by its
\* third return: it never asks for clarification a third time.
C4_ReadyByThirdInvocation == plan_calls < 3

\* C6: a turn that ends in an error result, or in the except clause after an
\* external call raised, leaves the session (history, router memory, draft
\* flags) exactly as it was when the turn began.
C6_FailedTurnLeavesSession ==
    (pc = "except" \/ (pc = "answer" /\ st.result = "error")) => sess = pre

\* the draft flags of a router memory are cleared
DraftCleared(rs) == ~rs.ppt_pending /\ rs.ppt_request_base = {}

\* C9: a turn that finds a draft pending and is neither classified
\* GENERATE_PPT nor a structured technical answer ends its graph run with
\* ppt_pending false and ppt_request_base empty, and so does the session once
\* the turn is committed; and the request text a fresh draft request (planner
\* entered with no draft pending) stores is built from that turn's utterance
\* alone.
C9_TopicSwitchCancelsDraft ==
    [][ /\ ( /\ pc = "post_process" /\ pc' = "answer"
             /\ pre.ppt_pending
             /\ st.intent.intent # "GENERATE_PPT"
             /\ ~is_technical_answer(st.question) )
           => DraftCleared(st'.router_state)
        /\ ( /\ pc = "finish" /\ pc' = "idle"
             /\ pre.ppt_pending
             /\ st.intent.intent # "GENERATE_PPT" )
           => /\ DraftCleared(sess'.router_state)
              /\ ~sess'.ppt_pending
              /\ sess'.ppt_request_base = {}
        /\ ( /\ pc = "ppt_plan" /\ pc' = "post_process"
             /\ ~st.router_state.ppt_pending )
           => st'.router_state.ppt_request_base \subseteq {turn}
      ]_vars

\* a fresh draft request has just been planned in a session whose earlier
\* draft (one clarification round asked) was cancelled by a topic switch
C9_Witness ==
    /\ pc = "post_process"
    /\ nodes_run = <<"router", "ppt_plan">>
    /\ ~pre.ppt_pending
    /\ pre.router_state.ppt_rounds = 1
    /\ st.router_state.ppt_pending
    /\ st.router_state.ppt_request_base = {turn}

\* C10: with a draft pending, an utterance that has a numbered or bulleted
\* line, or three non-empty lines, or more than 30 words leaves Router with
\* category GENERATE_PPT, on the edge to DraftPlan, and with the pending draft
\* state untouched.
C10_TechnicalAnswerGoesToDraftPlan ==
    [][ ( /\ pc = "router"
          /\ st.router_state.ppt_pending
          /\ is_technical_answer(st.question)
          /\ graph_run' # "raised" )
        => /\ st'.intent.intent = "GENERATE_PPT"
           /\ pc' = "ppt_plan"
           /\ st'.router_state.ppt_pending
           /\ st'.router_state.ppt_request_base = st.router_state.ppt_request_base
      ]_vars

\* C11: a return of ppt_plan_node that was entered with ppt_rounds at or
\* above the cap of 2 is READY: no clarification is requested and the turn
\* goes on to DraftGenerate, whatever the model's verdict.
C11_CapForcesReady ==
    [][ ( /\ pc = "ppt_plan"
          /\ st.router_state.ppt_rounds >= 2
          /\ graph_run' # "raised" )
        => /\ ~st'.intent.ppt_clarifications_needed
           /\ pc' = "ppt_generate"
      ]_vars

\* C12: a return of ppt_plan_node that was entered with no draft pending
\* asks for clarification only if the model's verdict was need_clarification
\* with the round counter below the cap (the verdict as the plan keeps it);
\* otherwise it is READY in that invocation.
C12_FreshRequestAsksOnlyOnVerdict ==
    [][ ( /\ pc = "ppt_plan"
          /\ ~st.router_state.ppt_pending
          /\ graph_run' # "raised" )
        => ( st'.intent.ppt_clarifications_needed
               <=> (st'.intent.ppt_plan /\ st.router_state.ppt_rounds < 2) )
      ]_vars

\* the text has a LIMIT clause
C18_HasLimitClause(c) == HasToken(c, {"LIMIT"})

\* C18: every text cypher_qa executes, in the first execution and in the
\* retry, has a LIMIT clause; the first execution runs the plan with
\* "LIMIT 50" appended when the plan has no LIMIT clause and runs it
\* unchanged when it has one.
C18_ExecutedHasLimit ==
    [][ /\ \A i \in 1..Len(executed') : C18_HasLimitClause(executed'[i])
        /\ cq_pc = "exec1"
            => executed'[Len(executed')] =
                   IF C18_HasLimitClause(cypher) THEN cypher
                   ELSE cypher \o <<"LIMIT", "50">>
      ]_vars

(***************************************************************************)
(* Claims about detect_intent and the nodes behind it                      *)
(***************************************************************************)

C15_Elliptical ==
    /\ _RE_Y_SIMPLE(st.question) # <<>>
    /\ _clean_empresa(_RE_Y_SIMPLE(st.question)) # ""
    /\ Upper(pre.router_state.last_focus) = "EMPRESA"

\* C15: with remembered focus EMPRESA an utterance "y {X}?" whose cleaned
\* {X} is not empty is classified RAG_QA, follow-up, focus EMPRESA, company
\* query {X}; the Retrieval node then returns router memory whose last company
\* is {X}, which is what the turn commits to the session; with any other
\* remembered focus the elliptical rule does not fire.
C15_EllipticalSwitchesCompany ==
    [][ /\ ( pc = "router" /\ C15_Elliptical /\ pc' # "except" )
            => /\ st'.intent.intent = "RAG_QA"
               /\ st'.intent.is_followup
               /\ st'.intent.focus = "EMPRESA"
               /\ st'.intent.empresa_query = _clean_empresa(_RE_Y_SIMPLE(st.question))
               /\ pc' = "rag"
        /\ ( pc = "rag" /\ C15_Elliptical /\ pc' # "except" )
            => st'.router_state.last_empresa_query =
                   _clean_empresa(_RE_Y_SIMPLE(st.question))
        /\ ( pc = "finish" /\ pc' = "idle" )
            => sess'.router_state = st.router_state
        /\ ( pc = "router" /\ Upper(st.router_state.last_focus) # "EMPRESA" )
            => \A resp \in Responses :
                  detect_intent(st.question, st.history, st.router_state,
                                resp).rule # "y_simple"
      ]_vars

\* C19: when the Retrieval node runs with focus EMPRESA, searches afresh
\* and the company's contracts are not found, it does the retrieval of the
\* CONTRATO focus: what it returns is the outcome of the unfiltered search
\* (contracts "*" or none) with router memory's focus CONTRATO, not an answer
\* prompt built from the empty set of the company's contracts.
C19_NoContractsFallsBackToContractSearch ==
    [][ ( /\ pc = "rag"
          /\ st.intent.focus = "EMPRESA"
          /\ ~use_cached_context(st.intent, st.router_state)
          /\ pc' = "post_process"
          /\ st'.router_state.last_contratos \notin Empresas )
        => /\ st'.router_state.last_focus = "CONTRATO"
           /\ st'.router_state.last_contratos \in {"", "*"}
      ]_vars

C21_FailureCaughtAndReturned ==
    [][ /\ (pc' = "except" =>
               pc \in {"router", "greeting", "cypher", "rag", "ppt_plan",
                       "ppt_generate", "post_process", "answer", "finish"})
        /\ (graph_run' = "raised" /\ graph_run # "raised" => pc' = "except")
        /\ (pc = "except" => pc' = "idle" /\ sess' = sess /\ graph_run' = "none")
      ]_vars

C21_Witness ==
    /\ pc = "except"
    /\ graph_run = "raised"
    /\ nodes_run # <<>>
    /\ nodes_run[Len(nodes_run)] = "rag"

\* C25: when the Retrieval node, with focus EMPRESA and remembered evidence,
\* finds a ranking question, it returns no answer and the graph goes to the
\* StructuredQuery node; what that node then returns is an outcome of
\* cypher_qa on the question (its error, or its answer with the memory of a
\* graph query), not the card of the remembered company.
C25_AggregationFallbackRunsQuery ==
    [][ /\ ( /\ pc = "rag"
             /\ st.intent.focus = "EMPRESA"
             /\ use_cached_context(st.intent, st.router_state)
             /\ is_aggregation(st.question)
             /\ pc' # "except" )
           => (pc' = "cypher" /\ st'.result = "none")
        /\ ( /\ pc = "cypher"
             /\ st.intent.needs_cypher_fallback
             /\ pc' = "post_process" )
           => \/ st'.result = "error"
              \/ /\ st'.result \in {"answer", "long_answer"}
                 /\ st'.router_state.last_intent = "CYPHER_QA"
                 /\ st'.router_state.last_focus = "CONTRATO"
      ]_vars

C27_NoCompanyNoFollowup ==
    /\ st.intent.focus = "EMPRESA"
    /\ ~st.intent.is_followup
    /\ st.intent.empresa_query = ""
    /\ st.intent.empresa_nif = ""

\* C27: a turn with focus EMPRESA whose Intent Result is not a follow-up and
\* names no company does not look up the company router memory remembers:
\* the Retrieval node resolves no company (it stores none) and the
\* StructuredQuery node runs cypher_qa instead of the company card.
C27_RememberedCompanyOnlyOnFollowup ==
    [][ /\ (pc = "rag" /\ C27_NoCompanyNoFollowup /\ pc' = "post_process")
           => st'.router_state.last_empresa_query = ""
        /\ (pc = "cypher" /\ C27_NoCompanyNoFollowup /\ pc' = "post_process")
           => \/ st'.result = "error"
              \/ st'.router_state.last_focus = "CONTRATO"
      ]_vars

\* C28: a Retrieval or DraftGenerate step whose embed_text call came back
\* empty ends with the error result, and so with no prompt for the completion
\* provider and no draft input.
C28_EmptyEmbeddingStep ==
    \/ RagEmpresaFresh /\ RagEmpresaFreshReturns("empty")
    \/ RagContrato /\ RagContratoReturns("empty")
    \/ PptGenerateNode /\ PptGenerateReturns("empty")

C28_EmptyEmbeddingEndsAsError ==
    [][ C28_EmptyEmbeddingStep => st'.result = "error" ]_vars

\* C29: a Retrieval step with contract focus on a follow-up, with remembered
\* contracts and no change of company, that got its vector keeps the
\* remembered contracts as the turn's contracts (the contract index is not
\* searched) and retrieves chapters of those contracts only.
C29_Case ==
    /\ pc = "rag"
    /\ st.intent.focus # "EMPRESA"
    /\ st.intent.is_followup
    /\ st.router_state.last_contratos # ""
    /\ ~entity_switch(st.intent, st.router_state)

C29_CachedContractsRestrictSearch ==
    [][ (C29_Case /\ pc' # "except" /\ st'.result # "error")
            => /\ st'.result = "answer_prompt"
               /\ st'.router_state.last_contratos = st.router_state.last_contratos
               /\ st'.router_state.last_capitulos
                      \in {"", st.router_state.last_contratos} ]_vars

C29_Witness ==
    /\ pc = "post_process"
    /\ nodes_run # <<>> /\ nodes_run[Len(nodes_run)] = "rag"
    /\ st.intent.focus = "CONTRATO" /\ st.intent.is_followup
    /\ st.result = "answer_prompt"
    /\ pre.router_state.last_contratos # ""
    /\ st.router_state.last_contratos = pre.router_state.last_contratos
    /\ st.router_state.last_capitulos = pre.router_state.last_contratos

\* C31: a StructuredQuery step with company focus in which the company is not
\* found in the graph returns an answer and no error, goes on to PostProcess,
\* and leaves the router memory's focus, company and cached evidence as they
\* were.
C31_CompanyNotFoundIsPlainAnswer ==
    [][ ( /\ pc = "cypher"
          /\ st.intent.focus = "EMPRESA"
          /\ _empresa_lookup(st.intent, st.router_state) # ""
          /\ CypherNode
          /\ CypherCompanyNotFound )
        => /\ st'.result = "answer"
           /\ pc' = "post_process"
           /\ st'.router_state.last_focus = st.router_state.last_focus
           /\ st'.router_state.last_empresa_query = st.router_state.last_empresa_query
           /\ st'.router_state.last_empresa_nif = st.router_state.last_empresa_nif
           /\ st'.router_state.last_contratos = st.router_state.last_contratos
           /\ st'.router_state.last_capitulos = st.router_state.last_capitulos
           /\ sess' = sess ]_vars

\* the company of the turn was asked for and not found: the card would have
\* set last_intent to CYPHER_QA
C31_Witness ==
    /\ pc = "post_process"
    /\ nodes_run # <<>> /\ nodes_run[Len(nodes_run)] = "cypher"
    /\ st.intent.focus = "EMPRESA"
    /\ _empresa_lookup(st.intent, st.router_state) # ""
    /\ st.result = "answer"
    /\ st.router_state.last_intent # "CYPHER_QA"
    /\ st.router_state.last_contratos # ""

\* the last entries of h, at most MAX_HISTORY_TURNS of them
C35_MostRecent(h) ==
    SubSeq(h, IF Len(h) > MAX_HISTORY_TURNS THEN Len(h) - MAX_HISTORY_TURNS + 1 ELSE 1,
           Len(h))

\* what a turn may append: up to four entries of that turn
C35_Appended ==
    UNION {[1..n -> {Entry(turn, "user"), Entry(turn, "assistant")}] : n \in 1..4}

\* C35: the session history never holds more than MAX_HISTORY_TURNS entries;
\* whenever it changes, the new history is the old one with entries of the
\* running turn appended, cut to the most recent MAX_HISTORY_TURNS; and when
\* a turn commits its answer the assistant entry of that turn is the last.
C35_HistoryBoundedMostRecent ==
    [][ /\ Len(sess'.history) <= MAX_HISTORY_TURNS
        /\ sess'.history # sess.history =>
              \E added \in C35_Appended :
                 sess'.history = C35_MostRecent(sess.history \o added)
        /\ (pc = "answer" /\ orch_answer' # "") =>
              /\ sess'.history # <<>>
              /\ sess'.history[Len(sess'.history)] = Entry(turn, "assistant")
      ]_vars

\* the history is full and the entries of the first turn are gone
C35_Witness ==
    /\ Len(sess.history) = MAX_HISTORY_TURNS
    /\ sess.history[1].turn > 1
    /\ sess.history[MAX_HISTORY_TURNS] = Entry(turn, "assistant")

\* how often the session history holds the entry of turn t with that role
C36_Recorded(t, role) ==
    Cardinality({k \in 1..Len(sess.history) : sess.history[k] = Entry(t, role)})

\* C36: the session history holds, for every turn so far, at most one user
\* entry and at most one assistant entry, and as many of the one as of the
\* other once the turn is over.
C36_TurnRecordedOnce ==
    \A t \in 1..turn :
       /\ C36_Recorded(t, "user") <= 1
       /\ C36_Recorded(t, "assistant") <= 1
       /\ pc = "idle" => C36_Recorded(t, "user") = C36_Recorded(t, "assistant")

\* C37: whenever the session's router memory has the company focus, the cached
\* contracts and the cached chapters (the extracts are stored with them) are
\* empty or those of the remembered company.
C37_CacheBelongsToRememberedCompany ==
    LET rs == sess.router_state
    IN  rs.last_focus = "EMPRESA"
        => /\ rs.last_contratos \in {"", CompanyOf(rs.last_empresa_query)}
           /\ rs.last_capitulos \in {"", CompanyOf(rs.last_empresa_query)}

\* C38: in every session state the clarification-round counter is between 0
\* and 2, and a session with no draft pending has the counter at 0 and no
\* stored draft request.
C38_DraftCounterFollowsPending ==
    LET rs == sess.router_state
    IN  /\ rs.ppt_rounds \in 0..2
        /\ ~rs.ppt_pending => rs.ppt_rounds = 0 /\ rs.ppt_request_base = {}

\* how often node n has been executed in the graph run so far
C39_Executions(n) == Cardinality({k \in 1..Len(nodes_run) : nodes_run[k] = n})

C14_HowManyWon(q) ==
    /\ Len(Flatten(q)) > 4
    /\ SubSeq(Flatten(q), 1, 4) = <<"cuantos", "contratos", "ha", "ganado">>

\* articles and prepositions that may surround a company's name
C14_Stopwords == {"el", "la", "los", "las", "de", "del", "en"}

RECURSIVE C14_DropLeft(_)
C14_DropLeft(ws) ==
    IF ws # <<>> /\ Head(ws) \in C14_Stopwords \cup StripChars
    THEN C14_DropLeft(Tail(ws)) ELSE ws

RECURSIVE C14_DropRight(_)
C14_DropRight(ws) ==
    IF ws # <<>> /\ ws[Len(ws)] \in C14_Stopwords \cup StripChars
    THEN C14_DropRight(SubSeq(ws, 1, Len(ws) - 1)) ELSE ws

\* {name} with surrounding stopwords and punctuation removed
C14_Name(q) ==
    Join(C14_DropRight(C14_DropLeft(SubSeq(Flatten(q), 5, Len(Flatten(q))))))

\* C14: for every utterance "cuantos contratos ha ganado {name}"
\* detect_intent returns, without a completion call, category CYPHER_QA, focus
\* EMPRESA and as company query {name} with the surrounding stopwords and
\* punctuation removed.
C14_HowManyContractsNamesCompany ==
    ( di_pc = "told" /\ C14_HowManyWon(di_q) )
        => /\ ~di_out.raised
           /\ di_out.llm_calls = 0
           /\ di_out.intent.intent = "CYPHER_QA"
           /\ di_out.intent.focus = "EMPRESA"
           /\ di_out.intent.empresa_query = C14_Name(di_q)

\* C16: whatever the completion provider answers to the fallback prompt
\* (text that is not JSON, JSON that is not an object, an object with
\* missing, unknown or wrongly typed values) detect_intent does not raise;
\* for text that is not JSON it returns RAG_QA, focus CONTRATO, no
\* document-type filter and no clause-type filter.
C16_FallbackNeverRaises ==
    ( di_pc = "told" /\ di_resp.kind # "none" )
        => /\ ~di_out.raised
           /\ di_resp.kind = "unparsable"
                  => /\ di_out.intent.intent = "RAG_QA"
                     /\ di_out.intent.focus = "CONTRATO"
                     /\ di_out.doc_tipo = ""
                     /\ di_out.extracto_tipos = {}

\* C17: every Intent Result detect_intent returns, by a lexical rule, by a
\* follow-up rule that copies from router memory or by the model fallback,
\* after any earlier turns, has its category among the intents, its focus in
\* {CONTRATO, EMPRESA}, its document-type filter none, PPT or PCAP and its
\* clause-type filters inside the known vocabulary.
C17_ResultInClosedSets ==
    ( di_pc = "told" /\ ~di_out.raised )
        => /\ di_out.intent.intent \in {"RAG_QA", "CYPHER_QA", "GENERATE_PPT"}
           /\ di_out.intent.focus \in {"CONTRATO", "EMPRESA"}
           /\ di_out.doc_tipo \in {"", "PPT", "PCAP"}
           /\ di_out.extracto_tipos \subseteq KNOWN_EXTRACTO_TYPES

\* a follow-up rule has copied a document-type filter that an earlier turn's
\* fallback result left in router memory
C17_Witness ==
    /\ di_pc = "told"
    /\ di_turn = 2
    /\ di_out.rule = "prev_ref"
    /\ di_out.doc_tipo = "PPT"
    /\ di_out.intent.focus = "CONTRATO"

\* C32: when the generic short-follow-up rule classifies the utterance, the
\* utterance has a detail keyword and either has at most 8 words or starts
\* with a continuation conjunction, the history is not empty, and the
\* utterance is not a company-like candidate of at most 6 words without a
\* detail keyword.
C32_ContextualFollowupNeedsKeyword ==
    (di_pc = "told" /\ di_out.rule = "contextual")
        => /\ di_history # <<>>
           /\ _RE_FOLLOWUP_KEYWORDS(di_q)
           /\ Len(Flatten(di_q)) <= 8 \/ _RE_FOLLOWUP_HINT(di_q)
           /\ ~ ( /\ _clean_empresa(Flatten(di_q)) # ""
                  /\ Len(StripRight(StripLeft(Flatten(di_q)))) <= 6
                  /\ ~_RE_FOLLOWUP_KEYWORDS(di_q) )

(***************************************************************************)
(* Claims about the handlers of one conversation (checked under            *)
(* SpecHandlers)                                                           *)
(***************************************************************************)
\* C22: a call of orchestrate_message reads the session only when no other
\* call of the same conversation is between its reading of the session and
\* its last commit, and a commit never removes from the session's history an
\* entry another call has committed.
C22_OneTurnInFlight ==
    [][ /\ \A h \in Handlers :
              (cc_pc[h] = "idle" /\ cc_pc'[h] = "running")
              => \A g \in Handlers \ {h} : cc_pc[g] = "idle"
        /\ \A k \in 1..Len(cc_sess.history) :
              \E j \in 1..Len(cc_sess'.history) :
                 cc_sess'.history[j] = cc_sess.history[k]
      ]_vars

C26_Branches == {"greeting", "cypher", "rag", "ppt_plan", "simple_chat"}

C26_Reaches(b) ==
    \E q \in IntentUtterances :
       \E d \in detect_intent_outcomes(q, di_history, di_last, IntentResponses) :
          ~d.raised /\ route_intent(d.intent) = b

\* C26: whatever history and router memory the conversation has left, for
\* each of the five branches of Router there are an utterance and an answer
\* of the completion provider for which detect_intent returns an Intent
\* Result that route_intent sends to that branch.
C26_EveryBranchReachable ==
    di_pc = "ask" => \A b \in C26_Branches : C26_Reaches(b)

====
